---------------------------- MODULE Spec2Model ----------------------------
(***************************************************************************)
(* A model of cinder/volume/api.py: the volume orchestration API (create,  *)
(* create_snapshot, delete), its quota reserve/commit/rollback discipline  *)
(* and the placement routing of _cast_create_volume; then the status       *)
(* operations and the blocking calls to the worker, delete_snapshot,       *)
(* copy_volume_to_image, the listings and the metadata operations, each in *)
(* a specification of its own.                                             *)
(*                                                                         *)
(* Concurrent API requests are the processes of the model.  Every call a   *)
(* request makes to a collaborator (persistence, quota ledger, messaging)  *)
(* is one atomic step; the steps of different requests interleave freely.  *)
(* A collaborator call may raise: the number of injected failures in one   *)
(* behaviour is bounded by MaxFaults.                                      *)
(***************************************************************************)
EXTENDS Integers, Sequences, FiniteSets, TLC

(***************************************************************************)
(* Bounds of the model.                                                    *)
(***************************************************************************)
MaxProcs == 2
MaxSize == 2
MaxFaults == 2
MaxOtherVolumes == 1
QuotaGigabytes == 8
QuotaVolumes == 3
QuotaSnapshots == 2

(***************************************************************************)
(* Program constants.                                                      *)
(***************************************************************************)
GB == 1073741824
MaxMetadataLen == 255

Procs == 1..MaxProcs
NULL == "None"
Resources == {"volumes", "gigabytes", "snapshots"}

scheduler_topic == "cinder-scheduler"
volume_topic == "cinder-volume"

VARIABLES volumes, snapshots, usages, reservations, casts, FLAGS, frame, faults

vars == <<volumes, snapshots, usages, reservations, casts, FLAGS, frame, faults>>

(***************************************************************************)
(* Strings of a given length, for the metadata inputs.                     *)
(***************************************************************************)
RECURSIVE StrOfLen(_)
StrOfLen(n) ==
    IF n = 0 THEN ""
    ELSE IF n % 2 = 0 THEN LET half == StrOfLen(n \div 2) IN half \o half
    ELSE StrOfLen(n - 1) \o "a"

LongStr == StrOfLen(MaxMetadataLen + 1)

(* A metadata dict is the set of its (key, value) items; None is the empty dict. *)
MetadataInputs ==
    { {}, {<<"k", "v">>}, {<<"", "v">>}, {<<LongStr, "v">>}, {<<"k", LongStr>>} }

(* The errors _check_metadata_properties can raise for a dict: the first   *)
(* offending item in the dict's iteration order decides.                   *)
(* Length tests that already refuse a key or value of 255 characters. *)
ItemError_OffByOne(item) ==
    IF Len(item[1]) = 0 THEN "InvalidVolumeMetadata"
    ELSE IF Len(item[1]) >= MaxMetadataLen THEN "InvalidVolumeMetadataSize"
    ELSE IF Len(item[2]) >= MaxMetadataLen THEN "InvalidVolumeMetadataSize"
    ELSE NULL

ItemError(item) ==
    IF Len(item[1]) = 0 THEN "InvalidVolumeMetadata"
    ELSE IF Len(item[1]) > MaxMetadataLen THEN "InvalidVolumeMetadataSize"
    ELSE IF Len(item[2]) > MaxMetadataLen THEN "InvalidVolumeMetadataSize"
    ELSE NULL

check_metadata_properties(metadata) ==
    LET errs == { ItemError(i) : i \in metadata } \ {NULL}
    IN  IF errs = {} THEN {NULL} ELSE errs

(***************************************************************************)
(* The image catalog: image_service.show gives the size in bytes.          *)
(***************************************************************************)
ImageIds == {"img1"}
ImageSizeBytes(image_id) == 1

image_size_in_gb(image_id) == (ImageSizeBytes(image_id) + GB - 1) \div GB

(***************************************************************************)
(* Volume types.                                                           *)
(***************************************************************************)
DefaultVolumeType == [id |-> "vt-default"]
NoVolumeType == [id |-> NULL]

VolumeTypeInputs == {NoVolumeType, DefaultVolumeType}

(* volume_types.get_default_volume_type(): the configured default type. *)
get_default_volume_type == DefaultVolumeType

(***************************************************************************)
(* Records.  A volume or snapshot that is None, or a local name that is    *)
(* not bound yet, is the record NoRecord.  The field req of a row and of   *)
(* a cast names the request that wrote it (0: present initially).          *)
(***************************************************************************)
NoRecord == [id |-> NULL]

Range(f) == { f[x] : x \in DOMAIN f }

NewVolumeId(p) == "vol-" \o ToString(p)
NewSnapshotId(p) == "snap-" \o ToString(p)

SeedVolume ==
    [id |-> "v1", size |-> 2, status |-> "available",
     attach_status |-> "detached", host |-> "hostA", snapshot_id |-> NULL,
     source_volid |-> NULL, volume_type_id |-> DefaultVolumeType.id,
     metadata |-> {}, req |-> 0]

SeedSnapshot ==
    [id |-> "s1", volume_id |-> "v1", volume_size |-> 2,
     status |-> "available", progress |-> "100%", metadata |-> {}, req |-> 0]

SeedVolumeStatuses == {"available", "error"}
SeedSnapshotStatuses == {"available", "error"}

(***************************************************************************)
(* The quota ledger (QUOTAS).  usages[r] holds in_use and reserved of the  *)
(* project; a reservation is a set of deltas held against them.            *)
(***************************************************************************)
Limit(r) ==
    CASE r = "gigabytes" -> QuotaGigabytes
      [] r = "volumes" -> QuotaVolumes
      [] r = "snapshots" -> QuotaSnapshots

Consumed(u, r) == u[r].reserved + u[r].in_use

(* A reserve that checks the limit against in_use alone, blind to the      *)
(* deltas other requests hold reserved.                                     *)
QuotaOvers_IgnoresReserved(u, deltas) ==
    { r \in DOMAIN deltas : deltas[r] > 0 /\ u[r].in_use + deltas[r] > Limit(r) }

(* The resources a reservation of deltas would push over their limit. *)
QuotaOvers(u, deltas) ==
    { r \in DOMAIN deltas : deltas[r] > 0 /\ Consumed(u, r) + deltas[r] > Limit(r) }

(* usages after a successful reserve: positive deltas become reserved. *)
QuotaReserve(u, deltas) ==
    [r \in Resources |->
        IF r \in DOMAIN deltas /\ deltas[r] > 0
        THEN [u[r] EXCEPT !.reserved = @ + deltas[r]]
        ELSE u[r]]

(* usages after commit: the delta leaves reserved and becomes usage. *)
QuotaCommit(u, deltas) ==
    [r \in Resources |->
        IF r \in DOMAIN deltas
        THEN [in_use |-> u[r].in_use + deltas[r],
              reserved |-> IF deltas[r] >= 0 THEN u[r].reserved - deltas[r]
                           ELSE u[r].reserved]
        ELSE u[r]]

(* usages after rollback: the delta is discarded. *)
QuotaRollback(u, deltas) ==
    [r \in Resources |->
        IF r \in DOMAIN deltas /\ deltas[r] >= 0
        THEN [u[r] EXCEPT !.reserved = @ - deltas[r]]
        ELSE u[r]]

NoDeltas == [r \in {} |-> 0]

NoReservation == [state |-> "none", deltas |-> NoDeltas, commits |-> 0, rollbacks |-> 0]

(***************************************************************************)
(* A request's frame: the operation, its position and its local names.     *)
(***************************************************************************)
NoLocals ==
    [size |-> 0, snapshot_id |-> NULL, source_volid |-> NULL,
     image_id |-> NULL, volume_type |-> NoVolumeType, volume_type_id |-> NULL,
     metadata |-> {}, source_host |-> NULL, host |-> NULL]

(* A size argument as the caller passed it: an integer, or a string of      *)
(* digits (str) standing for the integer val.                               *)
IntSize(n) == [str |-> FALSE, val |-> n]
StrSize(n) == [str |-> TRUE, val |-> n]

(* The arguments of the call, kept by the specifications whose properties   *)
(* speak of them; NoArgs where they are not kept.                           *)
NoArgs ==
    [size |-> IntSize(0), snapshot_id |-> NULL, source_volid |-> NULL,
     force |-> FALSE, allow |-> TRUE, status |-> NULL]

(* fields: the status in the fields a request hands to API.update. *)
IdleFrame ==
    [op |-> NULL, pc |-> "idle", locals |-> NoLocals, volume |-> NoRecord,
     snapshot |-> NoRecord, resv |-> "unbound", exc |-> NULL, raised |-> NULL,
     overs |-> {}, failed_at |-> NULL, args |-> NoArgs, fields |-> NULL]

(* The request is over: it raised e, or returned ("returned"). *)
Finish(f, e) == [f EXCEPT !.pc = "done", !.raised = e]

(* The project holds volume v1, its snapshot s1 and up to MaxOtherVolumes   *)
(* further volumes of 1 GB that no request touches; usages counts them all. *)
Init ==
    /\ \E vs \in SeedVolumeStatuses :
           volumes = ("v1" :> [SeedVolume EXCEPT !.status = vs])
    /\ \E ss \in SeedSnapshotStatuses :
           snapshots = ("s1" :> [SeedSnapshot EXCEPT !.status = ss])
    /\ FLAGS \in [snapshot_same_host : BOOLEAN, no_snapshot_gb_quota : {FALSE}]
    /\ \E other \in 0..MaxOtherVolumes :
           usages = [r \in Resources |->
                        [in_use |-> CASE r = "volumes" -> 1 + other
                                      [] r = "snapshots" -> 1
                                      [] r = "gigabytes" ->
                                            SeedVolume.size
                                            + SeedSnapshot.volume_size + other,
                         reserved |-> 0]]
    /\ reservations = [p \in Procs |-> NoReservation]
    /\ casts = {}
    /\ frame = [p \in Procs |-> IdleFrame]
    /\ faults = 0

(***************************************************************************)
(* API.create                                                              *)
(***************************************************************************)
(* A size argument of 0 stands for a size that was not given (None). *)
SizeInputs == {-1, 0} \cup 1..MaxSize

(* The size arguments create tolerates: an integer or its string. *)
SizeArgs == { IntSize(n) : n \in SizeInputs } \cup { StrSize(n) : n \in SizeInputs }

(* `not size`: None and the integer 0 are false, a string of digits is not. *)
NotSize(size) == ~size.str /\ size.val = 0

(* `size < n` for an integer n: an integer compares by value, a string      *)
(* compares greater than every integer.                                     *)
SizeLess(size, n) == ~size.str /\ size.val < n

(* as_int (lines 125-129): the integer a string of digits denotes. *)
as_int(size) == size.val

(* A defaulting that takes 1 for a size that was not given, whatever the    *)
(* snapshot or the source volume records.                                   *)
ResolvedSize_DefaultsToOne(size, snapshot, source_volume) ==
    IF NotSize(size) /\ (snapshot.id # NULL \/ source_volume.id # NULL)
    THEN 1 ELSE as_int(size)

(* The size create resolves from its arguments (the defaulting of lines    *)
(* 103-104 and 114-115, then as_int at line 132).                          *)
ResolvedSize(size, snapshot, source_volume) ==
    LET s1 == IF snapshot.id # NULL /\ NotSize(size)
              THEN IntSize(snapshot.volume_size) ELSE size
        s2 == IF source_volume.id # NULL /\ NotSize(s1)
              THEN IntSize(source_volume.size) ELSE s1
    IN  as_int(s2)

(* Checks that leave out the test of the resolved size (lines 134-137). *)
CreateValidate_WithoutSizeTest(size, snapshot, source_volume, image_id, allow) ==
    IF snapshot.id # NULL /\ source_volume.id # NULL THEN "InvalidInput"
    ELSE IF ~allow THEN "PolicyNotAuthorized"
    ELSE IF snapshot.id # NULL /\ snapshot.status # "available"
         THEN "InvalidSnapshot"
    ELSE IF source_volume.id # NULL /\ source_volume.status = "error"
         THEN "InvalidSourceVolume"
    ELSE NULL

(* The checks create makes before it reserves quota, in the code's order:  *)
(* the error raised, or NULL.                                              *)
CreateValidate(size, snapshot, source_volume, image_id, allow) ==
    LET s1 == IF snapshot.id # NULL /\ NotSize(size)
              THEN IntSize(snapshot.volume_size) ELSE size
        s2 == ResolvedSize(size, snapshot, source_volume)
    IN  IF snapshot.id # NULL /\ source_volume.id # NULL THEN "InvalidInput"
        ELSE IF ~allow THEN "PolicyNotAuthorized"
        ELSE IF snapshot.id # NULL /\ snapshot.status # "available"
             THEN "InvalidSnapshot"
        ELSE IF source_volume.id # NULL /\ source_volume.status = "error"
             THEN "InvalidSourceVolume"
        ELSE IF source_volume.id # NULL /\ ~NotSize(s1)
                /\ SizeLess(s1, source_volume.size)
             THEN "InvalidInput"
        ELSE IF s2 <= 0 THEN "InvalidInput"
        ELSE IF image_id # NULL /\ source_volume.id = NULL /\ snapshot.id = NULL
                /\ image_size_in_gb(image_id) > s2
             THEN "InvalidInput"
        ELSE NULL

(* The deltas create reserves. *)
CreateDeltas(size) == [volumes |-> 1, gigabytes |-> size]

(* The OverQuota handler with its two tests in the other order. *)
CreateOverQuotaError_VolumesFirst(overs) ==
    IF "volumes" \in overs THEN "VolumeLimitExceeded"
    ELSE IF "gigabytes" \in overs THEN "VolumeSizeExceedsAvailableQuota"
    ELSE NULL

(* The error create raises for an OverQuota carrying overs. *)
CreateOverQuotaError(overs) ==
    IF "gigabytes" \in overs THEN "VolumeSizeExceedsAvailableQuota"
    ELSE IF "volumes" \in overs THEN "VolumeLimitExceeded"
    ELSE NULL

(* The volume type and volume_type_id create settles on (lines 180-186). *)
CreateVolumeType(volume_type, source_volume) ==
    IF volume_type.id = NULL /\ source_volume.id = NULL
    THEN get_default_volume_type ELSE volume_type

CreateVolumeTypeId(volume_type, source_volume) ==
    IF volume_type.id = NULL /\ source_volume.id # NULL
    THEN source_volume.volume_type_id
    ELSE CreateVolumeType(volume_type, source_volume).id

(* The options create hands to volume_create (lines 189-200). *)
CreateOptions(l) ==
    [size |-> l.size, snapshot_id |-> l.snapshot_id, status |-> "creating",
     attach_status |-> "detached", volume_type_id |-> l.volume_type_id,
     metadata |-> l.metadata, source_volid |-> l.source_volid]

(* The row volume_create persists and returns: the options, an id, no host. *)
VolumeRow(id, options, p) ==
    [id |-> id, size |-> options.size, status |-> options.status,
     attach_status |-> options.attach_status, host |-> NULL,
     snapshot_id |-> options.snapshot_id, source_volid |-> options.source_volid,
     volume_type_id |-> options.volume_type_id, metadata |-> options.metadata,
     req |-> p]

(* The frame of a create that has made its argument checks and the policy   *)
(* check (lines 93-146) and settled the volume type (lines 180-186).        *)
CreateEnter(f, size, snapshot, source_volume, image_id, volume_type, metadata, allow) ==
    LET err == CreateValidate(size, snapshot, source_volume, image_id, allow)
    IN  IF err # NULL THEN Finish(f, err)
        ELSE [f EXCEPT !.pc = "create_reserve",
                !.locals = [NoLocals EXCEPT
                    !.size = ResolvedSize(size, snapshot, source_volume),
                    !.snapshot_id = snapshot.id,
                    !.source_volid = source_volume.id,
                    !.source_host =
                        IF source_volume.id # NULL
                        THEN source_volume.host ELSE NULL,
                    !.image_id = image_id,
                    !.volume_type =
                        CreateVolumeType(volume_type, source_volume),
                    !.volume_type_id =
                        CreateVolumeTypeId(volume_type, source_volume),
                    !.metadata = metadata]]

(* create begins: argument checks and the policy check. *)
Create(p) ==
    /\ frame[p].pc = "idle"
    /\ \E size \in SizeInputs, snapshot \in {NoRecord} \cup Range(snapshots),
          source_volume \in {NoRecord} \cup Range(volumes),
          image_id \in {NULL} \cup ImageIds, volume_type \in VolumeTypeInputs,
          metadata \in MetadataInputs, allow \in BOOLEAN :
          frame' = [frame EXCEPT ![p] =
              CreateEnter([@ EXCEPT !.op = "create"], IntSize(size), snapshot,
                          source_volume, image_id, volume_type, metadata, allow)]
    /\ UNCHANGED <<volumes, snapshots, usages, reservations, casts, FLAGS, faults>>

(* QUOTAS.reserve(volumes=1, gigabytes=size), then the metadata check. *)
CreateReserve(p) ==
    /\ frame[p].pc = "create_reserve"
    /\ LET l == frame[p].locals
           deltas == CreateDeltas(l.size)
           overs == QuotaOvers(usages, deltas)
       IN  \/ /\ overs # {}
              /\ frame' = [frame EXCEPT ![p] =
                     Finish([@ EXCEPT !.overs = overs], CreateOverQuotaError(overs))]
              /\ UNCHANGED <<usages, reservations>>
           \/ /\ overs = {}
              /\ usages' = QuotaReserve(usages, deltas)
              /\ reservations' = [reservations EXCEPT ![p] =
                     [NoReservation EXCEPT !.state = "open", !.deltas = deltas]]
              /\ \E e \in check_metadata_properties(l.metadata) :
                     frame' = [frame EXCEPT ![p] =
                         IF e # NULL THEN Finish([@ EXCEPT !.resv = "bound"], e)
                         ELSE [@ EXCEPT !.resv = "bound", !.pc = "create_db"]]
    /\ UNCHANGED <<volumes, snapshots, casts, FLAGS, faults>>

(* db.volume_create(context, options) *)
CreateVolumeCreate(p) ==
    /\ frame[p].pc = "create_db"
    /\ \/ /\ LET row == VolumeRow(NewVolumeId(p), CreateOptions(frame[p].locals), p)
             IN  /\ volumes' = volumes @@ (row.id :> row)
                 /\ frame' = [frame EXCEPT ![p].volume = row,
                                           ![p].pc = "create_commit"]
          /\ UNCHANGED faults
       \/ /\ faults < MaxFaults
          /\ faults' = faults + 1
          /\ frame' = [frame EXCEPT ![p].exc = "Error:volume_create",
                                    ![p].failed_at = "volume_create",
                                    ![p].pc = "create_cleanup"]
          /\ UNCHANGED volumes
    /\ UNCHANGED <<snapshots, usages, reservations, casts, FLAGS>>

(* QUOTAS.commit(context, reservations) *)
CreateCommit(p) ==
    /\ frame[p].pc = "create_commit"
    /\ \/ /\ usages' = QuotaCommit(usages, reservations[p].deltas)
          /\ reservations' = [reservations EXCEPT ![p].state = "committed",
                                                  ![p].commits = @ + 1]
          /\ frame' = [frame EXCEPT ![p].pc = "cast"]
          /\ UNCHANGED faults
       \/ /\ faults < MaxFaults
          /\ faults' = faults + 1
          /\ reservations' = [reservations EXCEPT ![p].commits = @ + 1]
          /\ frame' = [frame EXCEPT ![p].exc = "Error:commit",
                                    ![p].failed_at = "commit",
                                    ![p].pc = "create_cleanup"]
          /\ UNCHANGED usages
    /\ UNCHANGED <<volumes, snapshots, casts, FLAGS>>

(* excutils.save_and_reraise_exception(): when the block ends normally the *)
(* saved exception is raised again; an exception raised inside the block    *)
(* propagates in its place.                                                 *)
save_and_reraise_exception(saved, raised_in_block) ==
    IF raised_in_block # NULL THEN raised_in_block ELSE saved

(* db.volume_destroy / db.snapshot_destroy: the row of that id, if any, is gone. *)
Destroy(table, id) == [k \in DOMAIN table \ {id} |-> table[k]]

(* The except block of create (lines 205-210): volume_destroy of the local  *)
(* volume, which is unbound when volume_create raised, then rollback in the *)
(* finally clause.                                                          *)
CreateCleanup(p) ==
    /\ frame[p].pc = "create_cleanup"
    /\ usages' = QuotaRollback(usages, reservations[p].deltas)
    /\ reservations' = [reservations EXCEPT ![p].state = "rolledback",
                                            ![p].rollbacks = @ + 1]
    /\ \/ /\ frame[p].volume.id = NULL
          /\ frame' = [frame EXCEPT ![p] = Finish(@,
                 save_and_reraise_exception(@.exc, "UnboundLocalError"))]
          /\ UNCHANGED <<volumes, faults>>
       \/ /\ frame[p].volume.id # NULL
          /\ volumes' = Destroy(volumes, frame[p].volume.id)
          /\ frame' = [frame EXCEPT ![p] = Finish(@,
                 save_and_reraise_exception(@.exc, NULL))]
          /\ UNCHANGED faults
       \/ /\ frame[p].volume.id # NULL
          /\ faults < MaxFaults
          /\ faults' = faults + 1
          /\ frame' = [frame EXCEPT ![p] = Finish(@,
                 save_and_reraise_exception(@.exc, "Error:volume_destroy"))]
          /\ UNCHANGED volumes
    /\ UNCHANGED <<snapshots, casts, FLAGS>>

(***************************************************************************)
(* API._cast_create_volume: the placement router.                          *)
(***************************************************************************)
(* The request spec create builds (lines 212-217). *)
RequestSpec(options, volume_type, volume, image_id) ==
    [volume_properties |-> options, volume_type |-> volume_type,
     volume_id |-> volume.id, snapshot_id |-> volume.snapshot_id,
     image_id |-> image_id, source_volid |-> volume.source_volid]

FrameRequestSpec(f) ==
    RequestSpec(CreateOptions(f.locals), f.locals.volume_type, f.volume,
                f.locals.image_id)

filter_properties == {}

(* The router with the affinity flag read the wrong way round. *)
RouteKind_FlagInverted(request_spec, snapshot_same_host) ==
    IF request_spec.snapshot_id # NULL /\ ~snapshot_same_host THEN "snapshot"
    ELSE IF request_spec.source_volid # NULL THEN "clone"
    ELSE "scheduler"

(* The router with the clone branch also conditioned on the affinity flag. *)
RouteKind_CloneNeedsFlag(request_spec, snapshot_same_host) ==
    IF request_spec.snapshot_id # NULL /\ snapshot_same_host THEN "snapshot"
    ELSE IF request_spec.source_volid # NULL /\ snapshot_same_host THEN "clone"
    ELSE "scheduler"

(* The router with the snapshot branch taken whatever the affinity flag. *)
RouteKind_SnapshotIgnoresFlag(request_spec, snapshot_same_host) ==
    IF request_spec.snapshot_id # NULL THEN "snapshot"
    ELSE IF request_spec.source_volid # NULL THEN "clone"
    ELSE "scheduler"

(* The branch _cast_create_volume takes (lines 237, 255, 273). *)
RouteKind(request_spec, snapshot_same_host) ==
    IF request_spec.snapshot_id # NULL /\ snapshot_same_host THEN "snapshot"
    ELSE IF request_spec.source_volid # NULL THEN "clone"
    ELSE "scheduler"

(* The id of the volume whose host the new volume is stamped with, or the   *)
(* NotFound error of the lookups (lines 238-240, 256-257).                  *)
RouteSource(kind, request_spec) ==
    IF kind = "snapshot"
    THEN IF request_spec.snapshot_id \notin DOMAIN snapshots
         THEN [err |-> "SnapshotNotFound", id |-> NULL]
         ELSE LET vid == snapshots[request_spec.snapshot_id].volume_id
              IN  IF vid \notin DOMAIN volumes
                  THEN [err |-> "VolumeNotFound", id |-> NULL]
                  ELSE [err |-> NULL, id |-> vid]
    ELSE IF request_spec.source_volid \notin DOMAIN volumes
         THEN [err |-> "VolumeNotFound", id |-> NULL]
         ELSE [err |-> NULL, id |-> request_spec.source_volid]

(* A direct cast whose request spec has lost the source volume id. *)
DirectCast_DropsSourceVolid(kind, host, request_spec, p) ==
    [rpc |-> "volume", method |-> "create_volume", dest |-> host,
     topic |-> NULL,
     volume_id |-> request_spec.volume_id,
     request_spec |-> [request_spec EXCEPT !.source_volid = NULL],
     filter_properties |-> filter_properties, allow_reschedule |-> "False",
     snapshot_id |-> request_spec.snapshot_id,
     image_id |-> request_spec.image_id,
     source_volid |-> IF kind = "clone" THEN request_spec.source_volid ELSE NULL,
     req |-> p]

(* The kwargs of the direct volume_rpcapi.create_volume (lines 246-254, 263-272). *)
DirectCast(kind, host, request_spec, p) ==
    [rpc |-> "volume", method |-> "create_volume", dest |-> host,
     topic |-> NULL,
     volume_id |-> request_spec.volume_id, request_spec |-> request_spec,
     filter_properties |-> filter_properties, allow_reschedule |-> "False",
     snapshot_id |-> request_spec.snapshot_id,
     image_id |-> request_spec.image_id,
     source_volid |-> IF kind = "clone" THEN request_spec.source_volid ELSE NULL,
     req |-> p]

(* The arguments of scheduler_rpcapi.create_volume (lines 274-281): the     *)
(* message goes to the scheduler topic and names the volume topic; an       *)
(* argument a call does not pass is NULL.                                   *)
SchedulerCast(request_spec, p) ==
    [rpc |-> "scheduler", method |-> "create_volume", dest |-> scheduler_topic,
     topic |-> volume_topic,
     volume_id |-> request_spec.volume_id, request_spec |-> request_spec,
     filter_properties |-> filter_properties, allow_reschedule |-> NULL,
     snapshot_id |-> request_spec.snapshot_id,
     image_id |-> request_spec.image_id, source_volid |-> NULL, req |-> p]

(* Snapshot or clone origin: read the source volume's host and stamp the    *)
(* new volume with it (volume_update).                                      *)
CastCreateVolumeStamp(p) ==
    /\ frame[p].pc = "cast"
    /\ LET spec == FrameRequestSpec(frame[p])
           kind == RouteKind(spec, FLAGS.snapshot_same_host)
           src == RouteSource(kind, spec)
       IN  /\ kind # "scheduler"
           /\ \/ /\ UNCHANGED faults
                 /\ IF src.err # NULL
                    THEN /\ frame' = [frame EXCEPT ![p] =
                                Finish([@ EXCEPT !.failed_at = "dispatch"], src.err)]
                         /\ UNCHANGED volumes
                    ELSE IF spec.volume_id \notin DOMAIN volumes
                    THEN /\ frame' = [frame EXCEPT ![p] =
                                Finish([@ EXCEPT !.failed_at = "dispatch"],
                                       "VolumeNotFound")]
                         /\ UNCHANGED volumes
                    ELSE /\ volumes' = [volumes EXCEPT
                                ![spec.volume_id].host = volumes[src.id].host]
                         /\ frame' = [frame EXCEPT
                                ![p].locals.host = volumes[src.id].host,
                                ![p].pc = "cast_direct"]
              \/ /\ faults < MaxFaults
                 /\ faults' = faults + 1
                 /\ frame' = [frame EXCEPT ![p] =
                        Finish([@ EXCEPT !.failed_at = "dispatch"],
                               "Error:volume_update")]
                 /\ UNCHANGED volumes
    /\ UNCHANGED <<snapshots, usages, reservations, casts, FLAGS>>

(* The direct cast to the stamped host, bypassing the scheduler. *)
CastCreateVolumeDirect(p) ==
    /\ frame[p].pc = "cast_direct"
    /\ LET spec == FrameRequestSpec(frame[p])
           kind == RouteKind(spec, FLAGS.snapshot_same_host)
       IN  \/ /\ casts' = casts \cup {DirectCast(kind, frame[p].locals.host, spec, p)}
              /\ frame' = [frame EXCEPT ![p] = Finish(@, "returned")]
              /\ UNCHANGED faults
           \/ /\ faults < MaxFaults
              /\ faults' = faults + 1
              /\ frame' = [frame EXCEPT ![p] =
                     Finish([@ EXCEPT !.failed_at = "dispatch"], "Error:cast")]
              /\ UNCHANGED casts
    /\ UNCHANGED <<volumes, snapshots, usages, reservations, FLAGS>>

(* No origin to follow: the cast to the scheduler topic. *)
CastCreateVolumeScheduler(p) ==
    /\ frame[p].pc = "cast"
    /\ LET spec == FrameRequestSpec(frame[p])
       IN  /\ RouteKind(spec, FLAGS.snapshot_same_host) = "scheduler"
           /\ \/ /\ casts' = casts \cup {SchedulerCast(spec, p)}
                 /\ frame' = [frame EXCEPT ![p] = Finish(@, "returned")]
                 /\ UNCHANGED faults
              \/ /\ faults < MaxFaults
                 /\ faults' = faults + 1
                 /\ frame' = [frame EXCEPT ![p] =
                        Finish([@ EXCEPT !.failed_at = "dispatch"], "Error:cast")]
                 /\ UNCHANGED casts
    /\ UNCHANGED <<volumes, snapshots, usages, reservations, FLAGS>>

(***************************************************************************)
(* API.delete                                                              *)
(***************************************************************************)
(* A status check that does not let an error_restoring volume through. *)
DeleteStatusOk_WithoutErrorRestoring(volume, force) ==
    force \/ volume.status \in {"available", "error"}

(* The status check of delete (lines 327-330). *)
DeleteStatusOk(volume, force) ==
    force \/ volume.status \in {"available", "error", "error_restoring"}

(* Deltas that give back the volume but none of its gigabytes. *)
DeleteDeltas_VolumesOnly(volume) == [volumes |-> -1, gigabytes |-> 0]

(* The deltas the host-less path of delete reserves (lines 315-318). *)
DeleteDeltas(volume) == [volumes |-> -1, gigabytes |-> -volume.size]

(* A cast of volume_rpcapi other than create_volume, to the volume's host. *)
OtherCast(rpc_method, host, volume_id, snapshot_id, p) ==
    [rpc |-> "volume", method |-> rpc_method, dest |-> host, topic |-> NULL,
     volume_id |-> volume_id, request_spec |-> NoRecord,
     filter_properties |-> {}, allow_reschedule |-> NULL,
     snapshot_id |-> snapshot_id, image_id |-> NULL, source_volid |-> NULL,
     req |-> p]

(* The frame of a delete that has made the policy check and taken the      *)
(* host-less branch or made the status check (lines 303-330).              *)
DeleteEnter(f, volume, force, allow) ==
    LET g == [f EXCEPT !.volume = volume]
    IN  IF ~allow THEN Finish(f, "PolicyNotAuthorized")
        ELSE IF volume.host = NULL THEN [g EXCEPT !.pc = "delete_reserve"]
        ELSE IF ~DeleteStatusOk(volume, force) THEN Finish(g, "InvalidVolume")
        ELSE [g EXCEPT !.pc = "delete_snapshots"]

(* delete begins with the record the caller read: the policy check, then    *)
(* the host-less branch or the status check.                                *)
Delete(p) ==
    /\ frame[p].pc = "idle"
    /\ \E volume \in Range(volumes), force \in BOOLEAN, allow \in BOOLEAN :
          frame' = [frame EXCEPT ![p] =
              DeleteEnter([@ EXCEPT !.op = "delete"], volume, force, allow)]
    /\ UNCHANGED <<volumes, snapshots, usages, reservations, casts, FLAGS, faults>>

(* Host-less path: QUOTAS.reserve of the negative deltas; a failure is      *)
(* logged and leaves reservations None.                                     *)
DeleteReserve(p) ==
    /\ frame[p].pc = "delete_reserve"
    /\ \/ /\ usages' = QuotaReserve(usages, DeleteDeltas(frame[p].volume))
          /\ reservations' = [reservations EXCEPT ![p] =
                 [NoReservation EXCEPT !.state = "open",
                                       !.deltas = DeleteDeltas(frame[p].volume)]]
          /\ frame' = [frame EXCEPT ![p].resv = "bound", ![p].pc = "delete_destroy"]
          /\ UNCHANGED faults
       \/ /\ faults < MaxFaults
          /\ faults' = faults + 1
          /\ frame' = [frame EXCEPT ![p].resv = "None", ![p].pc = "delete_destroy"]
          /\ UNCHANGED <<usages, reservations>>
    /\ UNCHANGED <<volumes, snapshots, casts, FLAGS>>

(* Host-less path: db.volume_destroy(context.elevated(), volume_id). *)
DeleteDestroy(p) ==
    /\ frame[p].pc = "delete_destroy"
    /\ \/ /\ volumes' = Destroy(volumes, frame[p].volume.id)
          /\ frame' = [frame EXCEPT ![p] =
                 IF @.resv = "bound" THEN [@ EXCEPT !.pc = "delete_commit"]
                 ELSE Finish(@, "returned")]
          /\ UNCHANGED faults
       \/ /\ faults < MaxFaults
          /\ faults' = faults + 1
          /\ frame' = [frame EXCEPT ![p] =
                 Finish([@ EXCEPT !.failed_at = "volume_destroy"],
                        "Error:volume_destroy")]
          /\ UNCHANGED volumes
    /\ UNCHANGED <<snapshots, usages, reservations, casts, FLAGS>>

(* Host-less path: QUOTAS.commit of the negative reservation. *)
DeleteCommit(p) ==
    /\ frame[p].pc = "delete_commit"
    /\ \/ /\ usages' = QuotaCommit(usages, reservations[p].deltas)
          /\ reservations' = [reservations EXCEPT ![p].state = "committed",
                                                  ![p].commits = @ + 1]
          /\ frame' = [frame EXCEPT ![p] = Finish(@, "returned")]
          /\ UNCHANGED faults
       \/ /\ faults < MaxFaults
          /\ faults' = faults + 1
          /\ reservations' = [reservations EXCEPT ![p].commits = @ + 1]
          /\ frame' = [frame EXCEPT ![p] =
                 Finish([@ EXCEPT !.failed_at = "commit"], "Error:commit")]
          /\ UNCHANGED usages
    /\ UNCHANGED <<volumes, snapshots, casts, FLAGS>>

(* db.snapshot_get_all_for_volume and the dependent-snapshot check. *)
DeleteCheckSnapshots(p) ==
    /\ frame[p].pc = "delete_snapshots"
    /\ LET snaps == { s \in Range(snapshots) : s.volume_id = frame[p].volume.id }
       IN  frame' = [frame EXCEPT ![p] =
               IF snaps # {} THEN Finish(@, "InvalidVolume")
               ELSE [@ EXCEPT !.pc = "delete_update"]]
    /\ UNCHANGED <<volumes, snapshots, usages, reservations, casts, FLAGS, faults>>

(* A delete that goes on to its cast without having written the status. *)
DeleteUpdate_WritesNothing(p) ==
    /\ frame[p].pc = "delete_update"
    /\ frame' = [frame EXCEPT ![p].pc = "delete_cast"]
    /\ UNCHANGED <<volumes, snapshots, usages, reservations, casts, FLAGS, faults>>

(* db.volume_update(volume_id, {'status': 'deleting'}) *)
DeleteUpdate(p) ==
    /\ frame[p].pc = "delete_update"
    /\ \/ /\ UNCHANGED faults
          /\ IF frame[p].volume.id \notin DOMAIN volumes
             THEN /\ frame' = [frame EXCEPT ![p] = Finish(@, "VolumeNotFound")]
                  /\ UNCHANGED volumes
             ELSE /\ volumes' = [volumes EXCEPT
                         ![frame[p].volume.id].status = "deleting"]
                  /\ frame' = [frame EXCEPT ![p].pc = "delete_cast"]
       \/ /\ faults < MaxFaults
          /\ faults' = faults + 1
          /\ frame' = [frame EXCEPT ![p] =
                 Finish([@ EXCEPT !.failed_at = "volume_update"],
                        "Error:volume_update")]
          /\ UNCHANGED volumes
    /\ UNCHANGED <<snapshots, usages, reservations, casts, FLAGS>>

(* volume_rpcapi.delete_volume(context, volume): a cast to the volume's host. *)
DeleteCast(p) ==
    /\ frame[p].pc = "delete_cast"
    /\ \/ /\ casts' = casts \cup
                 {OtherCast("delete_volume", frame[p].volume.host,
                            frame[p].volume.id, NULL, p)}
          /\ frame' = [frame EXCEPT ![p] = Finish(@, "returned")]
          /\ UNCHANGED faults
       \/ /\ faults < MaxFaults
          /\ faults' = faults + 1
          /\ frame' = [frame EXCEPT ![p] =
                 Finish([@ EXCEPT !.failed_at = "dispatch"], "Error:cast")]
          /\ UNCHANGED casts
    /\ UNCHANGED <<volumes, snapshots, usages, reservations, FLAGS>>

(***************************************************************************)
(* API._create_snapshot (create_snapshot, create_snapshot_force)           *)
(***************************************************************************)
(* The deltas _create_snapshot reserves (lines 536-540). *)
SnapshotDeltas(volume, no_snapshot_gb_quota) ==
    IF no_snapshot_gb_quota THEN [snapshots |-> 1]
    ELSE [snapshots |-> 1, gigabytes |-> volume.size]

(* The error _create_snapshot raises for an OverQuota carrying overs. *)
SnapshotOverQuotaError(overs) ==
    IF "gigabytes" \in overs THEN "VolumeSizeExceedsAvailableQuota"
    ELSE IF "snapshots" \in overs THEN "SnapshotLimitExceeded"
    ELSE NULL

(* The row snapshot_create persists and returns (options of lines 569-577). *)
SnapshotRow(id, volume, metadata, p) ==
    [id |-> id, volume_id |-> volume.id, volume_size |-> volume.size,
     status |-> "creating", progress |-> "0%", metadata |-> metadata, req |-> p]

(* A status check that force does not skip. *)
SnapshotStatusOk_IgnoresForce(volume, force) == volume.status = "available"

(* The status check of _create_snapshot (lines 531-533). *)
SnapshotStatusOk(volume, force) == force \/ volume.status = "available"

(* The frame of a _create_snapshot that has made the policy check and the   *)
(* status check (lines 529-533).                                            *)
SnapshotEnter(f, volume, force, metadata, allow) ==
    IF ~allow THEN Finish(f, "PolicyNotAuthorized")
    ELSE IF ~SnapshotStatusOk(volume, force) THEN Finish(f, "InvalidVolume")
    ELSE [f EXCEPT !.pc = "snap_reserve", !.volume = volume,
                   !.locals.metadata = metadata]

(* _create_snapshot begins with the volume record the caller read: the      *)
(* policy check and the status check.                                       *)
CreateSnapshot(p) ==
    /\ frame[p].pc = "idle"
    /\ \E volume \in Range(volumes), force \in BOOLEAN,
          metadata \in MetadataInputs, allow \in BOOLEAN :
          frame' = [frame EXCEPT ![p] =
              SnapshotEnter([@ EXCEPT !.op = "create_snapshot"], volume, force,
                            metadata, allow)]
    /\ UNCHANGED <<volumes, snapshots, usages, reservations, casts, FLAGS, faults>>

(* QUOTAS.reserve(snapshots=1[, gigabytes=size]), then the metadata check. *)
SnapReserve(p) ==
    /\ frame[p].pc = "snap_reserve"
    /\ LET deltas == SnapshotDeltas(frame[p].volume, FLAGS.no_snapshot_gb_quota)
           overs == QuotaOvers(usages, deltas)
       IN  \/ /\ overs # {}
              /\ frame' = [frame EXCEPT ![p] =
                     Finish([@ EXCEPT !.overs = overs], SnapshotOverQuotaError(overs))]
              /\ UNCHANGED <<usages, reservations>>
           \/ /\ overs = {}
              /\ usages' = QuotaReserve(usages, deltas)
              /\ reservations' = [reservations EXCEPT ![p] =
                     [NoReservation EXCEPT !.state = "open", !.deltas = deltas]]
              /\ \E e \in check_metadata_properties(frame[p].locals.metadata) :
                     frame' = [frame EXCEPT ![p] =
                         IF e # NULL THEN Finish([@ EXCEPT !.resv = "bound"], e)
                         ELSE [@ EXCEPT !.resv = "bound", !.pc = "snap_db"]]
    /\ UNCHANGED <<volumes, snapshots, casts, FLAGS, faults>>

(* db.snapshot_create(context, options) *)
SnapCreate(p) ==
    /\ frame[p].pc = "snap_db"
    /\ \/ /\ LET row == SnapshotRow(NewSnapshotId(p), frame[p].volume,
                                    frame[p].locals.metadata, p)
             IN  /\ snapshots' = snapshots @@ (row.id :> row)
                 /\ frame' = [frame EXCEPT ![p].snapshot = row,
                                           ![p].pc = "snap_commit"]
          /\ UNCHANGED faults
       \/ /\ faults < MaxFaults
          /\ faults' = faults + 1
          /\ frame' = [frame EXCEPT ![p].exc = "Error:snapshot_create",
                                    ![p].failed_at = "snapshot_create",
                                    ![p].pc = "snap_cleanup"]
          /\ UNCHANGED snapshots
    /\ UNCHANGED <<volumes, usages, reservations, casts, FLAGS>>

(* QUOTAS.commit(context, reservations) *)
SnapCommit(p) ==
    /\ frame[p].pc = "snap_commit"
    /\ \/ /\ usages' = QuotaCommit(usages, reservations[p].deltas)
          /\ reservations' = [reservations EXCEPT ![p].state = "committed",
                                                  ![p].commits = @ + 1]
          /\ frame' = [frame EXCEPT ![p].pc = "snap_cast"]
          /\ UNCHANGED faults
       \/ /\ faults < MaxFaults
          /\ faults' = faults + 1
          /\ reservations' = [reservations EXCEPT ![p].commits = @ + 1]
          /\ frame' = [frame EXCEPT ![p].exc = "Error:commit",
                                    ![p].failed_at = "commit",
                                    ![p].pc = "snap_cleanup"]
          /\ UNCHANGED usages
    /\ UNCHANGED <<volumes, snapshots, casts, FLAGS>>

(* The except block of _create_snapshot (lines 582-587): snapshot_destroy   *)
(* is given volume['id'], then rollback in the finally clause.              *)
SnapCleanup(p) ==
    /\ frame[p].pc = "snap_cleanup"
    /\ usages' = QuotaRollback(usages, reservations[p].deltas)
    /\ reservations' = [reservations EXCEPT ![p].state = "rolledback",
                                            ![p].rollbacks = @ + 1]
    /\ \/ /\ snapshots' = Destroy(snapshots, frame[p].volume.id)
          /\ frame' = [frame EXCEPT ![p] = Finish(@,
                 save_and_reraise_exception(@.exc, NULL))]
          /\ UNCHANGED faults
       \/ /\ faults < MaxFaults
          /\ faults' = faults + 1
          /\ frame' = [frame EXCEPT ![p] = Finish(@,
                 save_and_reraise_exception(@.exc, "Error:snapshot_destroy"))]
          /\ UNCHANGED snapshots
    /\ UNCHANGED <<volumes, casts, FLAGS>>

(* volume_rpcapi.create_snapshot(context, volume, snapshot): a cast to the  *)
(* host of the caller's volume record.                                      *)
SnapCast(p) ==
    /\ frame[p].pc = "snap_cast"
    /\ \/ /\ casts' = casts \cup
                 {OtherCast("create_snapshot", frame[p].volume.host,
                            frame[p].volume.id, frame[p].snapshot.id, p)}
          /\ frame' = [frame EXCEPT ![p] = Finish(@, "returned")]
          /\ UNCHANGED faults
       \/ /\ faults < MaxFaults
          /\ faults' = faults + 1
          /\ frame' = [frame EXCEPT ![p] =
                 Finish([@ EXCEPT !.failed_at = "dispatch"], "Error:cast")]
          /\ UNCHANGED casts
    /\ UNCHANGED <<volumes, snapshots, usages, reservations, FLAGS>>

(***************************************************************************)
(* The specification.                                                      *)
(***************************************************************************)
Next ==
    \E p \in Procs :
        \/ Create(p)
        \/ CreateReserve(p)
        \/ CreateVolumeCreate(p)
        \/ CreateCommit(p)
        \/ CreateCleanup(p)
        \/ CastCreateVolumeStamp(p)
        \/ CastCreateVolumeDirect(p)
        \/ CastCreateVolumeScheduler(p)
        \/ Delete(p)
        \/ DeleteReserve(p)
        \/ DeleteDestroy(p)
        \/ DeleteCommit(p)
        \/ DeleteCheckSnapshots(p)
        \/ DeleteUpdate(p)
        \/ DeleteCast(p)
        \/ CreateSnapshot(p)
        \/ SnapReserve(p)
        \/ SnapCreate(p)
        \/ SnapCommit(p)
        \/ SnapCleanup(p)
        \/ SnapCast(p)

Spec == Init /\ [][Next]_vars

(***************************************************************************)
(* Properties.                                                             *)
(***************************************************************************)
Done(p) == frame[p].pc = "done"
Returned(p) == Done(p) /\ frame[p].raised = "returned"
Raised(p) == Done(p) /\ frame[p].raised # "returned"

VolumeRowsOf(p) == { v \in Range(volumes) : v.req = p }
SnapshotRowsOf(p) == { s \in Range(snapshots) : s.req = p }
CastsOf(p) == { c \in casts : c.req = p }
CreateCastsOf(p) == { c \in CastsOf(p) : c.method = "create_volume" }

MetadataErrors == {"InvalidVolumeMetadata", "InvalidVolumeMetadataSize"}

(* C1: every reservation a finished operation obtained has had exactly one *)
(* of commit and rollback invoked on it: never both, never neither.        *)
C1_ExactlyOneCommitOrRollback ==
    \A p \in Procs :
        Done(p) /\ reservations[p].state # "none"
            => reservations[p].commits + reservations[p].rollbacks = 1

(* C2: when the dispatch step of create or create_snapshot fails after the *)
(* reservation succeeded, the reservation is rolled back and the failure   *)
(* is raised to the caller.                                                *)
C2_DispatchFailureRollsBack ==
    \A p \in Procs :
        /\ Done(p)
        /\ frame[p].op \in {"create", "create_snapshot"}
        /\ frame[p].failed_at = "dispatch"
        => /\ Raised(p)
           /\ reservations[p].state = "rolledback"

(* C3: when volume_create / snapshot_create or the commit fails with E in  *)
(* create or create_snapshot, the reservation is rolled back and the error *)
(* the caller sees is E itself.                                            *)
C3_OriginalErrorSurfaced ==
    \A p \in Procs :
        /\ Done(p)
        /\ frame[p].op \in {"create", "create_snapshot"}
        /\ frame[p].failed_at \in {"volume_create", "snapshot_create", "commit"}
        => /\ frame[p].raised = frame[p].exc
           /\ reservations[p].state = "rolledback"

(* C4: a create or create_snapshot rejected for invalid metadata has had   *)
(* no side effect: no reservation outstanding or committed, no row         *)
(* persisted, no cast issued.                                              *)
C4_MetadataRejectionNoSideEffect ==
    \A p \in Procs :
        Done(p) /\ frame[p].raised \in MetadataErrors
            => /\ reservations[p].state = "none"
               /\ VolumeRowsOf(p) = {}
               /\ SnapshotRowsOf(p) = {}
               /\ CastsOf(p) = {}

(* C5: a create whose reserve is rejected as over quota fails with         *)
(* VolumeSizeExceedsAvailableQuota when gigabytes is over, with            *)
(* VolumeLimitExceeded when only the volume count is; no volume row is     *)
(* persisted, no reservation is held and no cast is issued.                *)
C5_OverQuotaRejection ==
    \A p \in Procs :
        frame[p].op = "create" /\ frame[p].overs # {}
            => /\ Done(p)
               /\ frame[p].raised =
                      IF "gigabytes" \in frame[p].overs
                      THEN "VolumeSizeExceedsAvailableQuota"
                      ELSE "VolumeLimitExceeded"
               /\ VolumeRowsOf(p) = {}
               /\ reservations[p].state = "none"
               /\ CastsOf(p) = {}

C5_Witness ==
    \E p \in Procs :
        /\ frame[p].op = "create"
        /\ "gigabytes" \in frame[p].overs
        /\ frame[p].raised = "VolumeSizeExceedsAvailableQuota"
        /\ Consumed(usages, "gigabytes") + frame[p].locals.size > QuotaGigabytes

(* C6: under every interleaving, the project's reserved + in_use never     *)
(* exceeds the limit, for gigabytes, volumes and snapshots.                *)
C6_NeverOverLimit ==
    \A r \in Resources : Consumed(usages, r) <= Limit(r)

(* Two concurrent creates: one holds its reservation, the other was        *)
(* rejected because both together would exceed the limit.                  *)
C6_Witness ==
    \E p, q \in Procs :
        /\ p # q
        /\ frame[p].op = "create" /\ frame[q].op = "create"
        /\ reservations[p].state = "open" /\ ~Done(p)
        /\ frame[q].overs # {}
        /\ \E r \in frame[q].overs :
               Consumed(usages, r) + CreateDeltas(frame[q].locals.size)[r] > Limit(r)

(* The host of the volume a snapshot was taken of. *)
SnapshotParentHost(snapshot_id) == volumes[snapshots[snapshot_id].volume_id].host

(* C7: a create from a snapshot with snapshot_same_host enabled never      *)
(* casts to the scheduler; once it has returned, the new volume's row      *)
(* carries the host H of the snapshot's parent volume and a direct cast    *)
(* to H was issued.                                                        *)
C7_SnapshotSameHost ==
    \A p \in Procs :
        /\ frame[p].op = "create"
        /\ frame[p].locals.snapshot_id # NULL
        /\ FLAGS.snapshot_same_host
        => /\ \A c \in CreateCastsOf(p) : c.rpc = "volume"
           /\ Returned(p) =>
                LET H == SnapshotParentHost(frame[p].locals.snapshot_id)
                IN  /\ \A v \in VolumeRowsOf(p) : v.host = H
                    /\ \E c \in CreateCastsOf(p) :
                           /\ c.dest = H
                           /\ c.volume_id = frame[p].volume.id
                           /\ c.snapshot_id = frame[p].locals.snapshot_id

C7_Witness ==
    \E p \in Procs :
        /\ frame[p].op = "create"
        /\ frame[p].locals.snapshot_id # NULL
        /\ FLAGS.snapshot_same_host
        /\ Returned(p)
        /\ \E v \in VolumeRowsOf(p) : v.host = "hostA"
        /\ \E c \in CreateCastsOf(p) : c.dest = "hostA"

(* C8: a create from a source volume residing on host H never casts to the *)
(* scheduler, whatever snapshot_same_host is; once it has returned, the    *)
(* new volume's row carries host H and a direct cast to H carrying         *)
(* source_volid was issued.                                                *)
C8_CloneSameHost ==
    \A p \in Procs :
        /\ frame[p].op = "create"
        /\ frame[p].locals.source_volid # NULL
        /\ frame[p].locals.source_host # NULL
        => /\ \A c \in CreateCastsOf(p) : c.rpc = "volume"
           /\ Returned(p) =>
                LET H == frame[p].locals.source_host
                IN  /\ \A v \in VolumeRowsOf(p) : v.host = H
                    /\ \E c \in CreateCastsOf(p) :
                           /\ c.dest = H
                           /\ c.volume_id = frame[p].volume.id
                           /\ c.source_volid = frame[p].locals.source_volid

C8_Witness ==
    \E p \in Procs :
        /\ frame[p].op = "create"
        /\ frame[p].locals.source_volid = "v1"
        /\ ~FLAGS.snapshot_same_host
        /\ Returned(p)
        /\ \E v \in VolumeRowsOf(p) : v.host = "hostA"
        /\ \E c \in CreateCastsOf(p) : c.dest = "hostA" /\ c.source_volid = "v1"

(* C9: a create with no source volume and with no snapshot or with         *)
(* snapshot_same_host disabled issues no direct cast and leaves the new    *)
(* volume's host unset; once it has returned, it has cast to the scheduler *)
(* topic with the request spec and an empty filter_properties.  Every      *)
(* create that returned has issued exactly one create dispatch.            *)
C9_SchedulerPath ==
    \A p \in Procs :
        frame[p].op = "create" =>
            /\ ( /\ frame[p].locals.source_volid = NULL
                 /\ frame[p].locals.snapshot_id = NULL \/ ~FLAGS.snapshot_same_host
                 /\ frame[p].pc # "idle" )
               => /\ \A c \in CreateCastsOf(p) :
                         /\ c.rpc = "scheduler"
                         /\ c.dest = scheduler_topic
                         /\ c.volume_id = frame[p].volume.id
                         /\ c.request_spec.volume_id = frame[p].volume.id
                         /\ c.filter_properties = {}
                  /\ \A v \in VolumeRowsOf(p) : v.host = NULL
                  /\ Returned(p) /\ frame[p].volume.id # NULL
                         => CreateCastsOf(p) # {}
            /\ Returned(p) => Cardinality(CreateCastsOf(p)) = 1
            /\ ~Returned(p) => Cardinality(CreateCastsOf(p)) = 0

C9_Witness ==
    \E p \in Procs :
        /\ frame[p].op = "create"
        /\ frame[p].locals.source_volid = NULL
        /\ frame[p].locals.snapshot_id # NULL
        /\ ~FLAGS.snapshot_same_host
        /\ Returned(p)
        /\ \E c \in CreateCastsOf(p) : c.rpc = "scheduler"
        /\ \E v \in VolumeRowsOf(p) : v.host = NULL

RequestSpecKeys ==
    {"volume_properties", "volume_type", "volume_id", "snapshot_id", "image_id",
     "source_volid"}

(* What a create cast must carry for the request that issued it, whatever  *)
(* the path: the six keys, with the values of the request.                 *)
SpecMatchesRequest(c) ==
    LET s == c.request_spec
        l == frame[c.req].locals
    IN  /\ DOMAIN s = RequestSpecKeys
        /\ s.volume_id = c.volume_id
        /\ s.volume_id = frame[c.req].volume.id
        /\ s.snapshot_id = l.snapshot_id
        /\ s.source_volid = l.source_volid
        /\ s.image_id = l.image_id
        /\ s.volume_type = l.volume_type
        /\ s.volume_properties.size = l.size
        /\ s.volume_properties.status = "creating"
        /\ s.volume_properties.attach_status = "detached"
        /\ s.volume_properties.volume_type_id = l.volume_type_id
        /\ s.volume_properties.metadata = l.metadata
        /\ s.volume_properties.snapshot_id = l.snapshot_id
        /\ s.volume_properties.source_volid = l.source_volid
        /\ c.filter_properties = {}

(* C10: the request spec of a direct cast has the shape of the one of a    *)
(* scheduler cast: the same keys, the values of the request, the same      *)
(* (empty) filter_properties.                                              *)
C10_UniformRequestSpec ==
    /\ \A c \in casts : c.method = "create_volume" => SpecMatchesRequest(c)
    /\ \A c1, c2 \in casts :
           /\ c1.method = "create_volume" /\ c1.rpc = "volume"
           /\ c2.method = "create_volume" /\ c2.rpc = "scheduler"
           => /\ DOMAIN c1.request_spec = DOMAIN c2.request_spec
              /\ DOMAIN c1.request_spec.volume_properties
                     = DOMAIN c2.request_spec.volume_properties
              /\ c1.filter_properties = c2.filter_properties

C10_Witness ==
    \E c1, c2 \in casts :
        /\ c1.method = "create_volume" /\ c1.rpc = "volume"
        /\ c1.request_spec.source_volid # NULL
        /\ c2.method = "create_volume" /\ c2.rpc = "scheduler"
        /\ c1.request_spec.image_id = c2.request_spec.image_id

(***************************************************************************)
(* create and the arguments it was called with.  The project holds volume  *)
(* v1 of 1..MaxSize GB and its snapshot s1; the request is one create,     *)
(* whose size, snapshot and source volume arguments are kept in args.      *)
(***************************************************************************)
InitCreate ==
    /\ \E vs \in SeedVolumeStatuses, sz \in 1..MaxSize, ss \in SeedSnapshotStatuses,
          other \in 0..MaxOtherVolumes :
           /\ volumes = ("v1" :> [SeedVolume EXCEPT !.status = vs, !.size = sz])
           /\ snapshots = ("s1" :> [SeedSnapshot EXCEPT !.status = ss,
                                                        !.volume_size = sz])
           /\ usages = [r \in Resources |->
                            [in_use |-> CASE r = "volumes" -> 1 + other
                                          [] r = "snapshots" -> 1
                                          [] r = "gigabytes" -> sz + sz + other,
                             reserved |-> 0]]
    /\ FLAGS \in [snapshot_same_host : BOOLEAN, no_snapshot_gb_quota : {FALSE}]
    /\ reservations = [p \in Procs |-> NoReservation]
    /\ casts = {}
    /\ frame = [p \in Procs |-> IdleFrame]
    /\ faults = 0

(* create begins, called with a size that is an integer or a string. *)
CreateCall(p) ==
    /\ frame[p].pc = "idle"
    /\ \E size \in SizeArgs, snapshot \in {NoRecord} \cup Range(snapshots),
          source_volume \in {NoRecord} \cup Range(volumes),
          image_id \in {NULL} \cup ImageIds, volume_type \in VolumeTypeInputs,
          metadata \in MetadataInputs, allow \in BOOLEAN :
          frame' = [frame EXCEPT ![p] =
              CreateEnter([@ EXCEPT !.op = "create",
                              !.args = [NoArgs EXCEPT
                                  !.size = size,
                                  !.snapshot_id = snapshot.id,
                                  !.source_volid = source_volume.id,
                                  !.allow = allow]],
                          size, snapshot, source_volume, image_id, volume_type,
                          metadata, allow)]
    /\ UNCHANGED <<volumes, snapshots, usages, reservations, casts, FLAGS, faults>>

(* One request, followed alone from its call to its end. *)
NextCreate ==
    \E p \in {1} :
        \/ CreateCall(p)
        \/ CreateReserve(p)
        \/ CreateVolumeCreate(p)
        \/ CreateCommit(p)
        \/ CreateCleanup(p)
        \/ CastCreateVolumeStamp(p)
        \/ CastCreateVolumeDirect(p)
        \/ CastCreateVolumeScheduler(p)

SpecCreate == InitCreate /\ [][NextCreate]_vars

(* The request has had no side effect: no reservation, no row, no cast. *)
NoSideEffect(p) ==
    /\ reservations[p].state = "none"
    /\ VolumeRowsOf(p) = {}
    /\ SnapshotRowsOf(p) = {}
    /\ CastsOf(p) = {}

(* C11: an authorized clone of a source volume that is not in error, with  *)
(* a requested size smaller than the source's, fails with InvalidInput     *)
(* and has reserved, persisted and dispatched nothing; with a requested    *)
(* size equal to or greater than the source's it is not rejected as        *)
(* InvalidInput; with no size given the volume has the source's size.      *)
C11_CloneSizeCheck ==
    \A p \in Procs :
        /\ frame[p].op = "create"
        /\ frame[p].args.allow
        /\ frame[p].args.snapshot_id = NULL
        /\ frame[p].args.source_volid \in DOMAIN volumes
        /\ volumes[frame[p].args.source_volid].status # "error"
        => LET source == volumes[frame[p].args.source_volid]
               size == frame[p].args.size
           IN  /\ ~NotSize(size) /\ size.val < source.size
                      => /\ Done(p) /\ frame[p].raised = "InvalidInput"
                         /\ NoSideEffect(p)
               /\ ~NotSize(size) /\ size.val >= source.size /\ size.val > 0
                      => frame[p].raised # "InvalidInput"
               /\ NotSize(size)
                      => /\ frame[p].raised # "InvalidInput"
                         /\ frame[p].locals.size = source.size
                         /\ \A v \in VolumeRowsOf(p) : v.size = source.size

(* C12: an authorized create from a snapshot (and no source volume) fails  *)
(* with InvalidSnapshot and no side effect when the snapshot's status is   *)
(* not available; when it is and no size is given, the request is not      *)
(* rejected for its arguments, the volume persisted has the snapshot's     *)
(* volume_size, and the reservation holds exactly that many gigabytes.     *)
C12_SnapshotSizeDefault ==
    \A p \in Procs :
        /\ frame[p].op = "create"
        /\ frame[p].args.allow
        /\ frame[p].args.snapshot_id # NULL
        /\ frame[p].args.source_volid = NULL
        => LET snapshot == snapshots[frame[p].args.snapshot_id]
           IN  /\ snapshot.status # "available"
                      => /\ Done(p) /\ frame[p].raised = "InvalidSnapshot"
                         /\ NoSideEffect(p)
               /\ snapshot.status = "available" /\ NotSize(frame[p].args.size)
                      => /\ frame[p].raised \notin {"InvalidSnapshot", "InvalidInput"}
                         /\ frame[p].locals.size = snapshot.volume_size
                         /\ \A v \in VolumeRowsOf(p) :
                                v.size = snapshot.volume_size
                         /\ reservations[p].state # "none"
                                => reservations[p].deltas
                                       = [volumes |-> 1,
                                          gigabytes |-> snapshot.volume_size]
                         /\ Returned(p) => /\ VolumeRowsOf(p) # {}
                                           /\ reservations[p].state = "committed"

C12_Witness ==
    \E p \in Procs :
        /\ frame[p].op = "create"
        /\ frame[p].args.snapshot_id = "s1"
        /\ NotSize(frame[p].args.size)
        /\ snapshots["s1"].volume_size = MaxSize
        /\ Returned(p)
        /\ \E v \in VolumeRowsOf(p) : v.size = MaxSize
        /\ reservations[p].state = "committed"
        /\ reservations[p].deltas.gigabytes = MaxSize

(***************************************************************************)
(* delete and create_snapshot on one volume.  The project holds volume v1, *)
(* placed on a host or not (placement never completed), with or without    *)
(* its snapshot s1; each request is a delete, whose force argument is kept *)
(* in args, or a create_snapshot.                                          *)
(***************************************************************************)
SeedPlacements ==
    { [host |-> "hostA", status |-> st] :
          st \in {"available", "error", "error_restoring", "in-use"} }
    \cup { [host |-> NULL, status |-> st] : st \in {"creating", "error"} }

InitDelete ==
    /\ FLAGS \in [snapshot_same_host : {TRUE}, no_snapshot_gb_quota : BOOLEAN]
    /\ \E pl \in SeedPlacements, with_snapshot \in BOOLEAN :
           /\ volumes = ("v1" :> [SeedVolume EXCEPT !.status = pl.status,
                                                    !.host = pl.host])
           /\ snapshots =
                  IF with_snapshot
                  THEN "s1" :> [SeedSnapshot EXCEPT !.status =
                                   IF pl.host = NULL THEN "creating" ELSE "available"]
                  ELSE <<>>
           /\ usages = [r \in Resources |->
                  [in_use |->
                       CASE r = "volumes" -> 1
                         [] r = "snapshots" -> IF with_snapshot THEN 1 ELSE 0
                         [] r = "gigabytes" ->
                               SeedVolume.size
                               + (IF with_snapshot /\ ~FLAGS.no_snapshot_gb_quota
                                  THEN SeedSnapshot.volume_size ELSE 0),
                   reserved |-> 0]]
    /\ reservations = [p \in Procs |-> NoReservation]
    /\ casts = {}
    /\ frame = [p \in Procs |-> IdleFrame]
    /\ faults = 0

(* delete begins with the record the caller read. *)
DeleteCall(p) ==
    /\ frame[p].pc = "idle"
    /\ \E volume \in Range(volumes), force \in BOOLEAN, allow \in BOOLEAN :
          frame' = [frame EXCEPT ![p] =
              DeleteEnter([@ EXCEPT !.op = "delete",
                              !.args = [NoArgs EXCEPT !.force = force,
                                                      !.allow = allow]],
                          volume, force, allow)]
    /\ UNCHANGED <<volumes, snapshots, usages, reservations, casts, FLAGS, faults>>

(* create_snapshot (force: create_snapshot_force) begins with the record    *)
(* the caller read, whose status is kept in args.status.                    *)
CreateSnapshotCall(p) ==
    /\ frame[p].pc = "idle"
    /\ \E volume \in Range(volumes), force \in BOOLEAN,
          metadata \in MetadataInputs, allow \in BOOLEAN :
          frame' = [frame EXCEPT ![p] =
              SnapshotEnter([@ EXCEPT !.op = "create_snapshot",
                                !.args = [NoArgs EXCEPT !.force = force,
                                                        !.allow = allow,
                                                        !.status = volume.status]],
                            volume, force, metadata, allow)]
    /\ UNCHANGED <<volumes, snapshots, usages, reservations, casts, FLAGS, faults>>

NextDelete ==
    \E p \in Procs :
        \/ DeleteCall(p)
        \/ DeleteReserve(p)
        \/ DeleteDestroy(p)
        \/ DeleteCommit(p)
        \/ DeleteCheckSnapshots(p)
        \/ DeleteUpdate(p)
        \/ DeleteCast(p)
        \/ CreateSnapshotCall(p)
        \/ SnapReserve(p)
        \/ SnapCreate(p)
        \/ SnapCommit(p)
        \/ SnapCleanup(p)
        \/ SnapCast(p)

SpecDelete == InitDelete /\ [][NextDelete]_vars

(* The snapshot rows that reference the volume of that id. *)
SnapshotsOfVolume(id) == { s \in Range(snapshots) : s.volume_id = id }

(* An authorized delete is under way or over. *)
Deleting(p) == frame[p].op = "delete" /\ frame[p].volume.id # NULL

(* C13: an authorized delete of a volume that had a snapshot when it was   *)
(* called, whatever the volume's status and host and whatever force, fails *)
(* with InvalidVolume, and the volume's record stays as it was.            *)
C13_DeleteWithSnapshotsFails ==
    \A p \in Procs :
        /\ Deleting(p)
        /\ \E s \in SnapshotsOfVolume(frame[p].volume.id) : s.req = 0
        => /\ frame[p].volume.id \in DOMAIN volumes
           /\ volumes[frame[p].volume.id] = frame[p].volume
           /\ Done(p) => frame[p].raised = "InvalidVolume"

(* The status check a delete with these arguments has to pass. *)
DeleteAllowedByStatus(p) ==
    \/ frame[p].args.force
    \/ frame[p].volume.status \in {"available", "error", "error_restoring"}

(* An authorized delete of a volume that has a host and no snapshot. *)
DeletingPlaced(p) ==
    /\ Deleting(p)
    /\ frame[p].volume.host # NULL
    /\ SnapshotsOfVolume(frame[p].volume.id) = {}

(* C14: an authorized delete of a volume with a host and no snapshots      *)
(* returns only if the volume's status is available, error or              *)
(* error_restoring, or force is set, and then the persisted status is      *)
(* deleting and a delete_volume cast to the volume's host was issued;      *)
(* with any other status and no force it fails with InvalidVolume, issues  *)
(* no cast, and no step of it changes a volume record.                     *)
C14_DeleteStatusGuard ==
    /\ [](\A p \in Procs :
            DeletingPlaced(p) =>
                /\ Returned(p) =>
                       /\ DeleteAllowedByStatus(p)
                       /\ volumes[frame[p].volume.id].status = "deleting"
                       /\ \E c \in CastsOf(p) :
                              /\ c.method = "delete_volume"
                              /\ c.volume_id = frame[p].volume.id
                              /\ c.dest = frame[p].volume.host
                /\ DeleteAllowedByStatus(p) => frame[p].raised # "InvalidVolume"
                /\ ~DeleteAllowedByStatus(p) =>
                       /\ Done(p) /\ frame[p].raised = "InvalidVolume"
                       /\ CastsOf(p) = {})
    /\ [][\A p \in Procs :
              /\ frame'[p] # frame[p]
              /\ frame'[p].op = "delete"
              /\ frame'[p].raised = "InvalidVolume"
              => volumes' = volumes /\ casts' = casts]_vars

C14_Witness ==
    \E p, q \in Procs :
        /\ DeletingPlaced(p) /\ Returned(p)
        /\ ~frame[p].args.force /\ frame[p].volume.status = "error_restoring"
        /\ volumes[frame[p].volume.id].status = "deleting"
        /\ \E c \in CastsOf(p) : c.method = "delete_volume"
        /\ DeletingPlaced(q) /\ frame[q].raised = "InvalidVolume"

(* An authorized delete of a volume that has no host. *)
DeletingUnplaced(p) == Deleting(p) /\ frame[p].volume.host = NULL

(* C15 as stated: a delete of a volume with no host sends no RPC, destroys *)
(* the record, and rolls back the reservation it holds: QUOTAS.commit is   *)
(* not invoked.                                                            *)
C15_HostlessDeleteRollsBack ==
    \A p \in Procs :
        DeletingUnplaced(p) =>
            /\ CastsOf(p) = {}
            /\ reservations[p].commits = 0
            /\ Returned(p) =>
                   /\ frame[p].volume.id \notin DOMAIN volumes
                   /\ reservations[p].state \in {"none", "rolledback"}

(* C15 amended: a delete of a volume with no host sends no RPC and         *)
(* destroys the record; the reservation it takes is of the negative deltas *)
(* (volumes -1, gigabytes -size), and it is committed, never rolled back;  *)
(* when the reserve failed nothing is committed.                           *)
C15_HostlessDeleteCommits ==
    \A p \in Procs :
        DeletingUnplaced(p) =>
            /\ CastsOf(p) = {}
            /\ reservations[p].rollbacks = 0
            /\ reservations[p].state # "none" =>
                   reservations[p].deltas =
                       [volumes |-> -1, gigabytes |-> -frame[p].volume.size]
            /\ Returned(p) =>
                   /\ frame[p].volume.id \notin DOMAIN volumes
                   /\ frame[p].resv = "bound" =>
                          /\ reservations[p].state = "committed"
                          /\ reservations[p].commits = 1
                   /\ frame[p].resv = "None" => reservations[p].state = "none"

C15_Witness ==
    \E p \in Procs :
        /\ DeletingUnplaced(p) /\ Returned(p)
        /\ frame[p].volume.id \notin DOMAIN volumes
        /\ reservations[p].state = "committed"
        /\ reservations[p].deltas.gigabytes = -SeedVolume.size
        /\ casts = {}

(* C19: no volume that a delete has set to deleting, or has destroyed, is  *)
(* referenced by a snapshot record persisted by a create_snapshot or       *)
(* create_snapshot_force that was called while the volume was not yet      *)
(* deleting (its record says so) and that delete did not see.              *)
C19_NoSnapshotOfDeletedVolume ==
    \A p \in Procs :
        /\ Deleting(p)
        /\ \/ frame[p].volume.id \notin DOMAIN volumes
           \/ volumes[frame[p].volume.id].status = "deleting"
        => \A s \in SnapshotsOfVolume(frame[p].volume.id) :
               s.req = 0 \/ frame[s.req].volume.status = "deleting"

(***************************************************************************)
(* The status operations on one volume: reserve_volume, unreserve_volume,  *)
(* begin_detaching, roll_detaching, check_attach, check_detach,            *)
(* copy_volume_to_image and the blocking calls attach, detach,             *)
(* initialize_connection and terminate_connection.  A request              *)
(* reads the volume's record (API.get) and later calls one operation with  *)
(* that record, whose status is kept in args.status; other requests run    *)
(* in between.  The volume starts in a status the attach cycle gives it,   *)
(* or available while still attached (an update of the status alone, line  *)
(* 345, leaves attach_status as it was).                                   *)
(***************************************************************************)
SeedAttachments ==
    { [status |-> "available", attach_status |-> "detached"],
      [status |-> "attaching", attach_status |-> "detached"],
      [status |-> "in-use", attach_status |-> "attached"],
      [status |-> "detaching", attach_status |-> "attached"],
      [status |-> "error", attach_status |-> "detached"],
      [status |-> "available", attach_status |-> "attached"] }

InitStatus ==
    /\ \E a \in SeedAttachments :
           volumes = ("v1" :> [SeedVolume EXCEPT !.status = a.status,
                                                !.attach_status = a.attach_status])
    /\ snapshots = <<>>
    /\ FLAGS \in [snapshot_same_host : {TRUE}, no_snapshot_gb_quota : {FALSE}]
    /\ usages = [r \in Resources |->
                    [in_use |-> CASE r = "volumes" -> 1
                                  [] r = "snapshots" -> 0
                                  [] r = "gigabytes" -> SeedVolume.size,
                     reserved |-> 0]]
    /\ reservations = [p \in Procs |-> NoReservation]
    /\ casts = {}
    /\ frame = [p \in Procs |-> IdleFrame @@ [result |-> NULL]]
    /\ faults = 0

(* API.get: the caller reads the volume's record. *)
Get(p) ==
    /\ frame[p].pc = "idle"
    /\ \E id \in DOMAIN volumes :
           frame' = [frame EXCEPT ![p].volume = volumes[id], ![p].pc = "got"]
    /\ UNCHANGED <<volumes, snapshots, usages, reservations, casts, FLAGS, faults>>

(* The frame of a request entering the operation op with its record, after *)
(* the policy check of wrap_check_policy.                                   *)
Enter(f, op, allow) ==
    LET g == [f EXCEPT !.op = op,
                       !.args = [NoArgs EXCEPT !.allow = allow,
                                               !.status = f.volume.status]]
    IN  IF allow THEN g ELSE Finish(g, "PolicyNotAuthorized")

(* A reserve_volume that tests the record it was passed. *)
ReserveRecord_CallerRecord(volume) == volume

(* The record reserve_volume tests: db.volume_get of the id (line 479). *)
ReserveRecord(volume) == volumes[volume.id]

(* reserve_volume: the record is read again and its status tested. *)
ReserveVolume(p) ==
    /\ frame[p].pc = "got"
    /\ \E allow \in BOOLEAN :
          LET f == Enter(frame[p], "reserve_volume", allow)
              volume == ReserveRecord(frame[p].volume)
          IN  frame' = [frame EXCEPT ![p] =
                  IF ~allow THEN f
                  ELSE IF volume.status = "available"
                       THEN [f EXCEPT !.volume = volume, !.fields = "attaching",
                                      !.pc = "update"]
                  ELSE Finish([f EXCEPT !.volume = volume], "InvalidVolume")]
    /\ UNCHANGED <<volumes, snapshots, usages, reservations, casts, FLAGS, faults>>

(* An unreserve_volume that updates whatever the status. *)
UnreserveGuard_Always(volume) == TRUE

(* The test of unreserve_volume (line 489). *)
UnreserveGuard(volume) == volume.status = "attaching"

(* unreserve_volume *)
UnreserveVolume(p) ==
    /\ frame[p].pc = "got"
    /\ \E allow \in BOOLEAN :
          LET f == Enter(frame[p], "unreserve_volume", allow)
          IN  frame' = [frame EXCEPT ![p] =
                  IF ~allow THEN f
                  ELSE IF UnreserveGuard(frame[p].volume)
                       THEN [f EXCEPT !.fields = "available", !.pc = "update"]
                  ELSE Finish(f, "returned")]
    /\ UNCHANGED <<volumes, snapshots, usages, reservations, casts, FLAGS, faults>>

(* begin_detaching *)
BeginDetaching(p) ==
    /\ frame[p].pc = "got"
    /\ \E allow \in BOOLEAN :
          LET f == Enter(frame[p], "begin_detaching", allow)
          IN  frame' = [frame EXCEPT ![p] =
                  IF ~allow THEN f
                  ELSE [f EXCEPT !.fields = "detaching", !.pc = "update"]]
    /\ UNCHANGED <<volumes, snapshots, usages, reservations, casts, FLAGS, faults>>

(* roll_detaching *)
RollDetaching(p) ==
    /\ frame[p].pc = "got"
    /\ \E allow \in BOOLEAN :
          LET f == Enter(frame[p], "roll_detaching", allow)
          IN  frame' = [frame EXCEPT ![p] =
                  IF ~allow THEN f
                  ELSE IF frame[p].volume.status = "detaching"
                       THEN [f EXCEPT !.fields = "in-use", !.pc = "update"]
                  ELSE Finish(f, "returned")]
    /\ UNCHANGED <<volumes, snapshots, usages, reservations, casts, FLAGS, faults>>

(* A check_attach that looks at the status alone. *)
CheckAttachError_StatusOnly(volume) ==
    IF volume.status # "available" THEN "InvalidVolume" ELSE NULL

(* The two tests of check_attach (lines 461-466): the error raised, or NULL. *)
CheckAttachError(volume) ==
    IF volume.status # "available" THEN "InvalidVolume"
    ELSE IF volume.attach_status = "attached" THEN "InvalidVolume"
    ELSE NULL

(* check_attach *)
CheckAttach(p) ==
    /\ frame[p].pc = "got"
    /\ \E allow \in BOOLEAN :
          LET f == Enter(frame[p], "check_attach", allow)
              err == CheckAttachError(frame[p].volume)
          IN  frame' = [frame EXCEPT ![p] =
                  IF ~allow THEN f
                  ELSE IF err # NULL THEN Finish(f, err)
                  ELSE Finish(f, "returned")]
    /\ UNCHANGED <<volumes, snapshots, usages, reservations, casts, FLAGS, faults>>

(* check_detach *)
CheckDetach(p) ==
    /\ frame[p].pc = "got"
    /\ \E allow \in BOOLEAN :
          LET f == Enter(frame[p], "check_detach", allow)
          IN  frame' = [frame EXCEPT ![p] =
                  IF ~allow THEN f
                  ELSE IF frame[p].volume.status = "available"
                       THEN Finish(f, "InvalidVolume")
                  ELSE Finish(f, "returned")]
    /\ UNCHANGED <<volumes, snapshots, usages, reservations, casts, FLAGS, faults>>

(* A check that force carries past any status. *)
VolumeAvailabilityError_ForceSkipsAll(volume, force) ==
    IF ~force /\ volume.status # "available" THEN "InvalidVolume" ELSE NULL

(* _check_volume_availability (lines 726-733): the error raised, or NULL. *)
VolumeAvailabilityError(volume, force) ==
    IF volume.status \notin {"available", "in-use"} THEN "InvalidVolume"
    ELSE IF ~force /\ "in-use" = volume.status THEN "InvalidVolume"
    ELSE NULL

(* The call image_service.create(context, metadata) as the image service    *)
(* receives it: it registers an image.  casts keeps these calls with the    *)
(* messages, under rpc = "image".                                           *)
ImageCreate(p) ==
    [OtherCast("create", NULL, NULL, NULL, p) EXCEPT !.rpc = "image",
                                                     !.image_id = "img-" \o ToString(p)]

(* copy_volume_to_image begins: the policy check, then                      *)
(* _check_volume_availability on the record it is passed.                   *)
CopyVolumeToImage(p) ==
    /\ frame[p].pc = "got"
    /\ \E force \in BOOLEAN, allow \in BOOLEAN :
          LET f == [Enter(frame[p], "copy_volume_to_image", allow) EXCEPT
                       !.args.force = force]
              err == VolumeAvailabilityError(frame[p].volume, force)
          IN  frame' = [frame EXCEPT ![p] =
                  IF ~allow THEN f
                  ELSE IF err # NULL THEN Finish(f, err)
                  ELSE [f EXCEPT !.pc = "copy_image"]]
    /\ UNCHANGED <<volumes, snapshots, usages, reservations, casts, FLAGS, faults>>

(* recv_metadata = self.image_service.create(context, metadata); what       *)
(* follows is self.update(context, volume, {'status': 'uploading'}).        *)
CopyImageCreate(p) ==
    /\ frame[p].pc = "copy_image"
    /\ \/ /\ casts' = casts \cup {ImageCreate(p)}
          /\ frame' = [frame EXCEPT ![p].locals.image_id = ImageCreate(p).image_id,
                                    ![p].fields = "uploading",
                                    ![p].pc = "update"]
          /\ UNCHANGED faults
       \/ /\ faults < MaxFaults
          /\ faults' = faults + 1
          /\ frame' = [frame EXCEPT ![p] =
                 Finish([@ EXCEPT !.failed_at = "image_create"],
                        "Error:image_create")]
          /\ UNCHANGED casts
    /\ UNCHANGED <<volumes, snapshots, usages, reservations, FLAGS>>

(* volume_rpcapi.copy_volume_to_image(context, volume, recv_metadata) *)
CopyCast(p) ==
    /\ frame[p].pc = "copy_cast"
    /\ \/ /\ casts' = casts \cup
                 {[OtherCast("copy_volume_to_image", frame[p].volume.host,
                             frame[p].volume.id, NULL, p) EXCEPT
                       !.image_id = frame[p].locals.image_id]}
          /\ frame' = [frame EXCEPT ![p] = Finish(@, "returned")]
          /\ UNCHANGED faults
       \/ /\ faults < MaxFaults
          /\ faults' = faults + 1
          /\ frame' = [frame EXCEPT ![p] =
                 Finish([@ EXCEPT !.failed_at = "dispatch"], "Error:cast")]
          /\ UNCHANGED casts
    /\ UNCHANGED <<volumes, snapshots, usages, reservations, FLAGS>>

(* attach: the policy check, then the blocking call to the worker. *)
Attach(p) ==
    /\ frame[p].pc = "got"
    /\ \E allow \in BOOLEAN :
          LET f == Enter(frame[p], "attach", allow)
          IN  frame' = [frame EXCEPT ![p] =
                  IF ~allow THEN f ELSE [f EXCEPT !.pc = "call"]]
    /\ UNCHANGED <<volumes, snapshots, usages, reservations, casts, FLAGS, faults>>

(* detach *)
Detach(p) ==
    /\ frame[p].pc = "got"
    /\ \E allow \in BOOLEAN :
          LET f == Enter(frame[p], "detach", allow)
          IN  frame' = [frame EXCEPT ![p] =
                  IF ~allow THEN f ELSE [f EXCEPT !.pc = "call"]]
    /\ UNCHANGED <<volumes, snapshots, usages, reservations, casts, FLAGS, faults>>

(* initialize_connection *)
InitializeConnection(p) ==
    /\ frame[p].pc = "got"
    /\ \E allow \in BOOLEAN :
          LET f == Enter(frame[p], "initialize_connection", allow)
          IN  frame' = [frame EXCEPT ![p] =
                  IF ~allow THEN f ELSE [f EXCEPT !.pc = "call"]]
    /\ UNCHANGED <<volumes, snapshots, usages, reservations, casts, FLAGS, faults>>

(* A terminate_connection that goes to the worker without unreserve_volume. *)
TerminateConnection_SkipsUnreserve(p) ==
    /\ frame[p].pc = "got"
    /\ \E allow \in BOOLEAN :
          LET f == Enter(frame[p], "terminate_connection", allow)
          IN  frame' = [frame EXCEPT ![p] =
                  IF ~allow THEN f ELSE [f EXCEPT !.pc = "call"]]
    /\ UNCHANGED <<volumes, snapshots, usages, reservations, casts, FLAGS, faults>>

(* terminate_connection: its policy check, then self.unreserve_volume with  *)
(* the same record (the policy check of unreserve_volume, the test of the   *)
(* record's status and, for attaching, self.update), then the worker call.  *)
TerminateConnection(p) ==
    /\ frame[p].pc = "got"
    /\ \E allow \in BOOLEAN, allow_unreserve \in BOOLEAN :
          LET f == Enter(frame[p], "terminate_connection", allow)
          IN  frame' = [frame EXCEPT ![p] =
                  IF ~allow THEN f
                  ELSE IF ~allow_unreserve THEN Finish(f, "PolicyNotAuthorized")
                  ELSE IF UnreserveGuard(frame[p].volume)
                       THEN [f EXCEPT !.fields = "available", !.pc = "update"]
                  ELSE [f EXCEPT !.pc = "call"]]
    /\ UNCHANGED <<volumes, snapshots, usages, reservations, casts, FLAGS, faults>>

(* The blocking volume_rpcapi call of attach, detach, initialize_connection *)
(* and terminate_connection: the request waits for the worker and returns   *)
(* its reply, or the worker's failure is raised.  casts keeps the call with *)
(* the reply the worker gave.                                               *)
WorkerCall(p) ==
    /\ frame[p].pc = "call"
    /\ LET rpc_method == CASE frame[p].op = "attach" -> "attach_volume"
                            [] frame[p].op = "detach" -> "detach_volume"
                            [] OTHER -> frame[p].op
           sent == OtherCast(rpc_method, frame[p].volume.host,
                             frame[p].volume.id, NULL, p)
       IN  \/ /\ \E reply \in {"reply-1", "reply-2"} :
                     /\ casts' = casts \cup {sent @@ [reply |-> reply]}
                     /\ frame' = [frame EXCEPT ![p] =
                            Finish([@ EXCEPT !.result = reply], "returned")]
              /\ UNCHANGED faults
           \/ /\ faults < MaxFaults
              /\ faults' = faults + 1
              /\ casts' = casts \cup {sent @@ [reply |-> "Error:call"]}
              /\ frame' = [frame EXCEPT ![p] =
                     Finish([@ EXCEPT !.failed_at = "call"], "Error:call")]
    /\ UNCHANGED <<volumes, snapshots, usages, reservations, FLAGS>>

(* API.update: its own policy check, then db.volume_update(id, fields). *)
Update(p) ==
    /\ frame[p].pc = "update"
    /\ \/ /\ \E allow \in BOOLEAN :
                 IF ~allow
                 THEN /\ frame' = [frame EXCEPT ![p] =
                             Finish(@, "PolicyNotAuthorized")]
                      /\ UNCHANGED volumes
                 ELSE /\ volumes' = [volumes EXCEPT
                             ![frame[p].volume.id].status = frame[p].fields]
                      /\ frame' = [frame EXCEPT ![p] =
                             IF @.op = "copy_volume_to_image"
                             THEN [@ EXCEPT !.pc = "copy_cast"]
                             ELSE IF @.op = "terminate_connection"
                             THEN [@ EXCEPT !.pc = "call"]
                             ELSE Finish(@, "returned")]
          /\ UNCHANGED faults
       \/ /\ faults < MaxFaults
          /\ faults' = faults + 1
          /\ frame' = [frame EXCEPT ![p] =
                 Finish([@ EXCEPT !.failed_at = "volume_update"],
                        "Error:volume_update")]
          /\ UNCHANGED volumes
    /\ UNCHANGED <<snapshots, usages, reservations, casts, FLAGS>>

NextStatus ==
    \E p \in Procs :
        \/ Get(p)
        \/ ReserveVolume(p)
        \/ UnreserveVolume(p)
        \/ BeginDetaching(p)
        \/ RollDetaching(p)
        \/ CheckAttach(p)
        \/ CheckDetach(p)
        \/ CopyVolumeToImage(p)
        \/ CopyImageCreate(p)
        \/ CopyCast(p)
        \/ Attach(p)
        \/ Detach(p)
        \/ InitializeConnection(p)
        \/ TerminateConnection(p)
        \/ WorkerCall(p)
        \/ Update(p)

SpecStatus == InitStatus /\ [][NextStatus]_vars

(* The step is one of request p, which is in operation op after it. *)
StepOf(p, op) == frame'[p] # frame[p] /\ frame'[p].op = op

(* The step is the call of op by request p, and the policy allows it. *)
CallOf(p, op) ==
    /\ frame[p].op = NULL
    /\ frame'[p].op = op
    /\ frame'[p].args.allow

(* C16: a reserve_volume goes on to its update only when the status        *)
(* persisted at the call is available, whatever the status of the record   *)
(* the caller passed, and when it returns it has set the status to         *)
(* attaching; for any other persisted status it raises InvalidVolume, and  *)
(* the step that raises changes no volume record.                          *)
C16_ReserveRereadsStatus ==
    [][\A p \in Procs :
          /\ CallOf(p, "reserve_volume") =>
                 LET persisted == volumes[frame[p].volume.id].status
                 IN  /\ persisted = "available" => frame'[p].raised = NULL
                     /\ persisted # "available" =>
                            /\ frame'[p].raised = "InvalidVolume"
                            /\ volumes' = volumes
          /\ StepOf(p, "reserve_volume") =>
                 IF frame'[p].raised = "returned"
                 THEN volumes' = [volumes EXCEPT
                          ![frame[p].volume.id].status = "attaching"]
                 ELSE volumes' = volumes]_vars

C16_Witness ==
    \E p, q \in Procs :
        /\ frame[p].op = "reserve_volume" /\ frame[q].op = "reserve_volume"
        /\ Returned(q)
        /\ volumes[frame[q].volume.id].status = "attaching"
        /\ frame[p].args.status = "available"
        /\ frame[p].raised = "InvalidVolume"

(* What the guard of a status-guarded operation accepts. *)
GuardAccepts(op, volume) ==
    CASE op = "reserve_volume" -> volume.status = "available"
      [] op = "unreserve_volume" -> volume.status = "attaching"
      [] op = "roll_detaching" -> volume.status = "detaching"
      [] op = "check_attach" ->
             volume.status = "available" /\ volume.attach_status # "attached"
      [] op = "check_detach" -> volume.status # "available"

GuardedOps ==
    {"reserve_volume", "unreserve_volume", "roll_detaching", "check_attach",
     "check_detach"}

(* C17: when a status-guarded operation is called, whether it goes on (a   *)
(* guard returns normally, an operation proceeds to write the status) is   *)
(* decided by the status persisted at that moment, not by the record the   *)
(* caller passed.                                                          *)
C17_GuardsUsePersistedStatus ==
    [][\A p \in Procs : \A op \in GuardedOps :
          CallOf(p, op) =>
              LET goes_on == IF op \in {"check_attach", "check_detach"}
                             THEN frame'[p].raised = "returned"
                             ELSE frame'[p].fields # NULL
              IN  goes_on <=> GuardAccepts(op, volumes[frame[p].volume.id])]_vars

(* C18: of two reserve_volume calls on the same volume, with no other      *)
(* request at work, at most one returns normally.                          *)
C18_AtMostOneReservation ==
    \A p, q \in Procs :
        /\ p # q
        /\ frame[p].op = "reserve_volume" /\ frame[q].op = "reserve_volume"
        /\ frame[p].volume.id = frame[q].volume.id
        /\ \A r \in Procs \ {p, q} : frame[r].pc = "idle"
        => ~(Returned(p) /\ Returned(q))

(* C20: an authorized unreserve_volume called with a record whose status   *)
(* is attaching sets the persisted status to available when it returns;    *)
(* called with a record of any other status it returns at once without     *)
(* error, and no step of it changes a volume record.                       *)
C20_UnreserveVolume ==
    /\ [](\A p \in Procs :
            frame[p].op = "unreserve_volume" /\ frame[p].args.allow =>
                /\ frame[p].raised # "InvalidVolume"
                /\ frame[p].args.status # "attaching" => Returned(p))
    /\ [][\A p \in Procs :
              StepOf(p, "unreserve_volume") =>
                  IF frame'[p].args.status = "attaching"
                     /\ frame'[p].raised = "returned"
                  THEN volumes' = [volumes EXCEPT
                           ![frame[p].volume.id].status = "available"]
                  ELSE volumes' = volumes]_vars

C20_Witness ==
    \E p, q \in Procs :
        /\ frame[p].op = "unreserve_volume" /\ Returned(p)
        /\ frame[p].args.status = "attaching"
        /\ volumes[frame[p].volume.id].status = "available"
        /\ frame[q].op = "unreserve_volume" /\ Returned(q)
        /\ frame[q].args.status = "available"

(* C21: a begin_detaching that returns has set the persisted status to     *)
(* detaching, whatever the status was; a roll_detaching called with a      *)
(* record whose status is detaching sets it to in-use when it returns and  *)
(* changes nothing otherwise; and a roll_detaching called after a          *)
(* begin_detaching of the same volume has returned goes on to set the      *)
(* status to in-use.                                                       *)
C21_BeginThenRollEndsInUse ==
    [][\A p \in Procs :
          /\ CallOf(p, "begin_detaching") => frame'[p].fields = "detaching"
          /\ StepOf(p, "begin_detaching") =>
                 IF frame'[p].raised = "returned"
                 THEN volumes' = [volumes EXCEPT
                          ![frame[p].volume.id].status = "detaching"]
                 ELSE volumes' = volumes
          /\ StepOf(p, "roll_detaching") =>
                 IF frame'[p].args.status = "detaching"
                    /\ frame'[p].raised = "returned"
                 THEN volumes' = [volumes EXCEPT
                          ![frame[p].volume.id].status = "in-use"]
                 ELSE volumes' = volumes
          /\ \A q \in Procs \ {p} :
                 /\ frame[q].op = "begin_detaching" /\ Returned(q)
                 /\ frame[q].volume.id = frame[p].volume.id
                 /\ CallOf(p, "roll_detaching")
                 => frame'[p].fields = "in-use"]_vars

(* An authorized check_attach or check_detach, called with its record. *)
Checking(p, op) == frame[p].op = op /\ frame[p].args.allow

(* C22: an authorized check_attach returns iff the record it is passed has *)
(* status available and attach_status other than attached, an authorized   *)
(* check_detach returns iff the record's status is not available; each     *)
(* raises InvalidVolume otherwise, at once, and no step of either changes  *)
(* a volume or snapshot record, the quota usage or the reservations, or    *)
(* issues an RPC.                                                          *)
C22_ChecksAreReadOnly ==
    /\ [](\A p \in Procs :
            /\ Checking(p, "check_attach") =>
                   /\ Done(p)
                   /\ frame[p].raised =
                          IF frame[p].volume.status = "available"
                             /\ frame[p].volume.attach_status # "attached"
                          THEN "returned" ELSE "InvalidVolume"
            /\ Checking(p, "check_detach") =>
                   /\ Done(p)
                   /\ frame[p].raised =
                          IF frame[p].volume.status # "available"
                          THEN "returned" ELSE "InvalidVolume")
    /\ [][\A p \in Procs :
              StepOf(p, "check_attach") \/ StepOf(p, "check_detach") =>
                  UNCHANGED <<volumes, snapshots, usages, reservations,
                              casts>>]_vars

C22_Witness ==
    \E p, q \in Procs :
        /\ Checking(p, "check_attach") /\ frame[p].raised = "InvalidVolume"
        /\ frame[p].volume.status = "available"
        /\ frame[p].volume.attach_status = "attached"
        /\ Checking(q, "check_detach") /\ frame[q].raised = "InvalidVolume"
        /\ volumes = [id \in {"v1"} |-> frame[p].volume]
        /\ casts = {}

(* An authorized create_snapshot or create_snapshot_force. *)
Snapshotting(p) == frame[p].op = "create_snapshot" /\ frame[p].args.allow

(* C23: an authorized create_snapshot of a volume whose record is not      *)
(* available fails with InvalidVolume unless it is forced, and the step    *)
(* that fails changes nothing; a forced one, or one of an available        *)
(* volume, does not fail so.  When a create_snapshot returns, the snapshot *)
(* it persisted has status creating, progress 0% and the volume's size as  *)
(* volume_size, and a create_snapshot cast for it went to the volume's     *)
(* host; no step of a create_snapshot changes a volume record.             *)
C23_CreateSnapshot ==
    /\ [](\A p \in Procs :
            Snapshotting(p) =>
                /\ (frame[p].args.force \/ frame[p].args.status = "available")
                       <=> frame[p].raised # "InvalidVolume"
                /\ frame[p].raised = "InvalidVolume" =>
                       /\ Done(p) /\ SnapshotRowsOf(p) = {} /\ CastsOf(p) = {}
                       /\ reservations[p] = NoReservation
                /\ Returned(p) =>
                       \E s \in SnapshotRowsOf(p) :
                           /\ s.status = "creating" /\ s.progress = "0%"
                           /\ s.volume_id = frame[p].volume.id
                           /\ s.volume_size = frame[p].volume.size
                           /\ CastsOf(p) =
                                  {OtherCast("create_snapshot", frame[p].volume.host,
                                             frame[p].volume.id, s.id, p)})
    /\ [][\A p \in Procs :
              StepOf(p, "create_snapshot") =>
                  /\ volumes' = volumes
                  /\ frame'[p].raised = "InvalidVolume" =>
                         UNCHANGED <<snapshots, usages, reservations, casts>>]_vars

C23_Witness ==
    \E p, q \in Procs :
        /\ Snapshotting(p) /\ Returned(p)
        /\ frame[p].args.force /\ frame[p].args.status = "in-use"
        /\ \E s \in SnapshotRowsOf(p) :
               s.status = "creating" /\ s.volume_size = SeedVolume.size
        /\ \E c \in CastsOf(p) : c.method = "create_snapshot" /\ c.dest = "hostA"
        /\ volumes["v1"].status = "in-use"
        /\ Snapshotting(q) /\ ~frame[q].args.force
        /\ frame[q].raised = "InvalidVolume"

(***************************************************************************)
(* delete_snapshot and update_snapshot on one snapshot.  The project holds *)
(* snapshot s1 of volume v1; the volume has a host, or none (a forced      *)
(* snapshot of a volume that was never placed), or is gone (destroyed by   *)
(* the host-less path of delete).  A request reads the snapshot's record   *)
(* (API.get_snapshot) and later calls one operation with that record,      *)
(* whose status is kept in args.status.                                    *)
(***************************************************************************)
SeedParents == {"hostA", NULL, "gone"}

SeedSnapshotStates == {"available", "error", "creating", "deleting"}

InitSnapshot ==
    /\ \E parent \in SeedParents, ss \in SeedSnapshotStates :
           /\ volumes = IF parent = "gone" THEN <<>>
                        ELSE "v1" :> [SeedVolume EXCEPT !.host = parent]
           /\ snapshots = ("s1" :> [SeedSnapshot EXCEPT !.status = ss])
           /\ usages = [r \in Resources |->
                  [in_use |-> CASE r = "volumes" ->
                                       IF parent = "gone" THEN 0 ELSE 1
                                [] r = "snapshots" -> 1
                                [] r = "gigabytes" ->
                                       SeedSnapshot.volume_size
                                       + (IF parent = "gone" THEN 0
                                          ELSE SeedVolume.size),
                   reserved |-> 0]]
    /\ FLAGS \in [snapshot_same_host : {TRUE}, no_snapshot_gb_quota : {FALSE}]
    /\ reservations = [p \in Procs |-> NoReservation]
    /\ casts = {}
    /\ frame = [p \in Procs |-> IdleFrame]
    /\ faults = 0

(* API.get_snapshot: the caller reads the snapshot's record. *)
GetSnapshot(p) ==
    /\ frame[p].pc = "idle"
    /\ \E id \in DOMAIN snapshots :
           frame' = [frame EXCEPT ![p].snapshot = snapshots[id], ![p].pc = "got_snapshot"]
    /\ UNCHANGED <<volumes, snapshots, usages, reservations, casts, FLAGS, faults>>

(* A status check that lets a snapshot through only when it is available. *)
DeleteSnapshotStatusOk_AvailableOnly(snapshot, force) ==
    force \/ snapshot.status = "available"

(* The status check of delete_snapshot (lines 607-609). *)
DeleteSnapshotStatusOk(snapshot, force) ==
    force \/ snapshot.status \in {"available", "error"}

(* delete_snapshot begins: the policy check of wrap_check_policy, then the  *)
(* status check on the record it is passed.                                 *)
DeleteSnapshot(p) ==
    /\ frame[p].pc = "got_snapshot"
    /\ \E force \in BOOLEAN, allow \in BOOLEAN :
          LET f == [frame[p] EXCEPT
                       !.op = "delete_snapshot",
                       !.args = [NoArgs EXCEPT !.force = force, !.allow = allow,
                                               !.status = frame[p].snapshot.status]]
          IN  frame' = [frame EXCEPT ![p] =
                  IF ~allow THEN Finish(f, "PolicyNotAuthorized")
                  ELSE IF ~DeleteSnapshotStatusOk(frame[p].snapshot, force)
                       THEN Finish(f, "InvalidVolume")
                  ELSE [f EXCEPT !.pc = "dsnap_update"]]
    /\ UNCHANGED <<volumes, snapshots, usages, reservations, casts, FLAGS, faults>>

(* db.snapshot_update(context, snapshot['id'], {'status': 'deleting'}) *)
DeleteSnapshotUpdate(p) ==
    /\ frame[p].pc = "dsnap_update"
    /\ \/ /\ snapshots' = [snapshots EXCEPT
                 ![frame[p].snapshot.id].status = "deleting"]
          /\ frame' = [frame EXCEPT ![p].pc = "dsnap_volume"]
          /\ UNCHANGED faults
       \/ /\ faults < MaxFaults
          /\ faults' = faults + 1
          /\ frame' = [frame EXCEPT ![p] =
                 Finish([@ EXCEPT !.failed_at = "snapshot_update"],
                        "Error:snapshot_update")]
          /\ UNCHANGED snapshots
    /\ UNCHANGED <<volumes, usages, reservations, casts, FLAGS>>

(* volume = db.volume_get(context, snapshot['volume_id']) *)
DeleteSnapshotVolumeGet(p) ==
    /\ frame[p].pc = "dsnap_volume"
    /\ \/ /\ frame' = [frame EXCEPT ![p] =
                 IF frame[p].snapshot.volume_id \in DOMAIN volumes
                 THEN [@ EXCEPT !.volume = volumes[frame[p].snapshot.volume_id],
                                !.pc = "dsnap_cast"]
                 ELSE Finish(@, "VolumeNotFound")]
          /\ UNCHANGED faults
       \/ /\ faults < MaxFaults
          /\ faults' = faults + 1
          /\ frame' = [frame EXCEPT ![p] =
                 Finish([@ EXCEPT !.failed_at = "volume_get"], "Error:volume_get")]
    /\ UNCHANGED <<volumes, snapshots, usages, reservations, casts, FLAGS>>

(* volume_rpcapi.delete_snapshot(context, snapshot, volume['host']) *)
DeleteSnapshotCast(p) ==
    /\ frame[p].pc = "dsnap_cast"
    /\ \/ /\ casts' = casts \cup
                 {OtherCast("delete_snapshot", frame[p].volume.host, NULL,
                            frame[p].snapshot.id, p)}
          /\ frame' = [frame EXCEPT ![p] = Finish(@, "returned")]
          /\ UNCHANGED faults
       \/ /\ faults < MaxFaults
          /\ faults' = faults + 1
          /\ frame' = [frame EXCEPT ![p] =
                 Finish([@ EXCEPT !.failed_at = "dispatch"], "Error:cast")]
          /\ UNCHANGED casts
    /\ UNCHANGED <<volumes, snapshots, usages, reservations, FLAGS>>

(* update_snapshot: the policy check, then db.snapshot_update(id, fields);  *)
(* the fields are a status.                                                 *)
UpdateSnapshot(p) ==
    /\ frame[p].pc = "got_snapshot"
    /\ \E status \in SeedSnapshotStates, allow \in BOOLEAN :
          LET f == [frame[p] EXCEPT
                       !.op = "update_snapshot", !.fields = status,
                       !.args = [NoArgs EXCEPT !.allow = allow,
                                               !.status = frame[p].snapshot.status]]
          IN  IF ~allow
              THEN /\ frame' = [frame EXCEPT ![p] = Finish(f, "PolicyNotAuthorized")]
                   /\ UNCHANGED snapshots
              ELSE /\ snapshots' = [snapshots EXCEPT
                          ![frame[p].snapshot.id].status = status]
                   /\ frame' = [frame EXCEPT ![p] = Finish(f, "returned")]
    /\ UNCHANGED <<volumes, usages, reservations, casts, FLAGS, faults>>

NextSnapshot ==
    \E p \in Procs :
        \/ GetSnapshot(p)
        \/ DeleteSnapshot(p)
        \/ DeleteSnapshotUpdate(p)
        \/ DeleteSnapshotVolumeGet(p)
        \/ DeleteSnapshotCast(p)
        \/ UpdateSnapshot(p)

SpecSnapshot == InitSnapshot /\ [][NextSnapshot]_vars

(* An authorized delete_snapshot, and what its status check has to accept. *)
DeletingSnapshot(p) == frame[p].op = "delete_snapshot" /\ frame[p].args.allow

DeleteSnapshotAllowed(p) ==
    frame[p].args.force \/ frame[p].args.status \in {"available", "error"}

(* C24: an authorized delete_snapshot called with a record whose status is *)
(* neither available nor error, and not forced, raises InvalidVolume at    *)
(* once, and that step changes no record and issues no cast; otherwise it  *)
(* does not raise InvalidVolume.  A delete_snapshot returns only if the    *)
(* status was available or error or force was set, and it has then set the *)
(* persisted status to deleting and issued one delete_snapshot cast for    *)
(* the snapshot to the host of the snapshot's parent volume.               *)
C24_DeleteSnapshot ==
    /\ [](\A p \in Procs :
            DeletingSnapshot(p) =>
                /\ DeleteSnapshotAllowed(p) <=> frame[p].raised # "InvalidVolume"
                /\ frame[p].raised = "InvalidVolume" => Done(p) /\ CastsOf(p) = {}
                /\ Returned(p) =>
                       /\ DeleteSnapshotAllowed(p)
                       /\ CastsOf(p) =
                              {OtherCast("delete_snapshot",
                                         volumes[frame[p].snapshot.volume_id].host,
                                         NULL, frame[p].snapshot.id, p)})
    /\ [][\A p \in Procs :
              StepOf(p, "delete_snapshot") =>
                  /\ frame'[p].raised = "InvalidVolume" =>
                         UNCHANGED <<volumes, snapshots, usages, reservations,
                                     casts>>
                  /\ frame[p].pc = "dsnap_update" /\ frame'[p].raised = NULL =>
                         snapshots' = [snapshots EXCEPT
                             ![frame[p].snapshot.id].status = "deleting"]
                  /\ frame'[p].raised = "returned" =>
                         frame[p].pc = "dsnap_cast"]_vars

C24_Witness ==
    \E p, q \in Procs :
        /\ DeletingSnapshot(p) /\ Returned(p)
        /\ ~frame[p].args.force /\ frame[p].args.status = "error"
        /\ snapshots["s1"].status = "deleting"
        /\ \E c \in CastsOf(p) : c.method = "delete_snapshot" /\ c.dest = "hostA"
        /\ DeletingSnapshot(q) /\ ~frame[q].args.force
        /\ frame[q].args.status = "deleting"
        /\ frame[q].raised = "InvalidVolume"

(* An authorized copy_volume_to_image, and what its check has to accept. *)
Copying(p) == frame[p].op = "copy_volume_to_image" /\ frame[p].args.allow

CopyAllowed(p) ==
    \/ frame[p].args.status = "available"
    \/ frame[p].args.status = "in-use" /\ frame[p].args.force

(* C25: an authorized copy_volume_to_image called with a record whose      *)
(* status is available, or in-use with force set, does not raise           *)
(* InvalidVolume; when it returns it has registered an image, set the      *)
(* persisted status to uploading and issued a copy_volume_to_image cast    *)
(* naming that image.  With any other status (in-use without force, or a   *)
(* status that is neither, forced or not) it raises InvalidVolume at once: *)
(* no image is registered, no cast is issued and that step changes no      *)
(* record.                                                                 *)
C25_CopyVolumeToImage ==
    /\ [](\A p \in Procs :
            Copying(p) =>
                /\ CopyAllowed(p) <=> frame[p].raised # "InvalidVolume"
                /\ frame[p].raised = "InvalidVolume" => Done(p) /\ CastsOf(p) = {}
                /\ Returned(p) =>
                       /\ CopyAllowed(p)
                       /\ ImageCreate(p) \in casts
                       /\ \E c \in CastsOf(p) :
                              /\ c.method = "copy_volume_to_image"
                              /\ c.volume_id = frame[p].volume.id
                              /\ c.dest = frame[p].volume.host
                              /\ c.image_id = ImageCreate(p).image_id)
    /\ [][\A p \in Procs :
              StepOf(p, "copy_volume_to_image") =>
                  /\ frame'[p].raised = "InvalidVolume" =>
                         UNCHANGED <<volumes, snapshots, usages, reservations,
                                     casts>>
                  /\ frame'[p].pc = "copy_cast" =>
                         volumes' = [volumes EXCEPT
                             ![frame[p].volume.id].status = "uploading"]
                  /\ frame'[p].raised = "returned" =>
                         frame[p].pc = "copy_cast"]_vars

C25_Witness ==
    \E p, q \in Procs :
        /\ Copying(p) /\ Returned(p)
        /\ frame[p].args.status = "in-use" /\ frame[p].args.force
        /\ volumes["v1"].status = "uploading"
        /\ \E c \in CastsOf(p) : c.method = "copy_volume_to_image"
        /\ Copying(q) /\ frame[q].raised = "InvalidVolume"
        /\ frame[q].args.status = "in-use" /\ ~frame[q].args.force
        /\ CastsOf(q) = {}

(***************************************************************************)
(* The read-only operations: list_availability_zones, get_all,             *)
(* get_all_snapshots and _check_metadata_properties.  One request is       *)
(* followed; it calls one operation, whose inputs (the arguments and what  *)
(* the persistence layer returns) are kept in its frame with the result.   *)
(***************************************************************************)
MaxServices == 3

(* What db.service_get_all_by_topic can return: up to MaxServices rows. *)
ServiceInputs ==
    LET rows == [availability_zone : {"zoneA", "zoneB"}, disabled : BOOLEAN]
    IN  UNION { [1..n -> rows] : n \in 0..MaxServices }

NoDict == [k \in {} |-> NULL]

QueryFrame ==
    IdleFrame @@ [services |-> <<>>, filters |-> NoDict, candidates |-> <<>>,
                  is_admin |-> FALSE, limit |-> NULL, metadata |-> {},
                  metadata_is_none |-> FALSE, result |-> <<>>]

InitQuery ==
    /\ volumes = <<>>
    /\ snapshots = <<>>
    /\ FLAGS \in [snapshot_same_host : {TRUE}, no_snapshot_gb_quota : {FALSE}]
    /\ usages = [r \in Resources |-> [in_use |-> 0, reserved |-> 0]]
    /\ reservations = [p \in Procs |-> NoReservation]
    /\ casts = {}
    /\ frame = [p \in Procs |-> QueryFrame]
    /\ faults = 0

(* A map that starts a zone as not disabled and takes the OR of the flags:  *)
(* a zone is disabled as soon as one of its services is.                    *)
RECURSIVE disabled_map_AnyDisabled(_)
disabled_map_AnyDisabled(az_data) ==
    IF az_data = <<>> THEN NoDict
    ELSE LET n == Len(az_data)
             prev == disabled_map_AnyDisabled(SubSeq(az_data, 1, n - 1))
             az_name == az_data[n][1]
             disabled == az_data[n][2]
             tracked_disabled ==
                 IF az_name \in DOMAIN prev THEN prev[az_name] ELSE FALSE
         IN  [z \in DOMAIN prev \cup {az_name} |->
                 IF z = az_name THEN tracked_disabled \/ disabled ELSE prev[z]]

(* disabled_map after the loop of lines 293-296 over az_data. *)
RECURSIVE disabled_map(_)
disabled_map(az_data) ==
    IF az_data = <<>> THEN NoDict
    ELSE LET n == Len(az_data)
             prev == disabled_map(SubSeq(az_data, 1, n - 1))
             az_name == az_data[n][1]
             disabled == az_data[n][2]
             tracked_disabled ==
                 IF az_name \in DOMAIN prev THEN prev[az_name] ELSE TRUE
         IN  [z \in DOMAIN prev \cup {az_name} |->
                 IF z = az_name THEN tracked_disabled /\ disabled ELSE prev[z]]

(* The orders in which the items of a dict with these keys can come. *)
ItemOrders(keys) ==
    { o \in [1..Cardinality(keys) -> keys] :
          \A i, j \in DOMAIN o : i # j => o[i] # o[j] }

(* list_availability_zones: the tuple of lines 298-301, in the order the    *)
(* dict yields its items.                                                   *)
ListAvailabilityZones(p) ==
    /\ frame[p].pc = "idle"
    /\ \E services \in ServiceInputs :
          LET az_data == [i \in DOMAIN services |->
                             <<services[i].availability_zone, services[i].disabled>>]
              map == disabled_map(az_data)
          IN  \E order \in ItemOrders(DOMAIN map) :
                  frame' = [frame EXCEPT ![p] =
                      Finish([@ EXCEPT !.op = "list_availability_zones",
                                       !.services = services,
                                       !.result =
                                           [i \in DOMAIN order |->
                                               [name |-> order[i],
                                                available |-> ~map[order[i]]]]],
                             "returned")]
    /\ UNCHANGED <<volumes, snapshots, usages, reservations, casts, FLAGS, faults>>

(* The rows db.volume_get_all[_by_project] and db.snapshot_get_all[_by_project] *)
(* can return, at most MaxRows of them, in the order the query gives them.   *)
MaxRows == 2

VolumeRows ==
    { [id |-> "v1", status |-> "available",
       volume_metadata |-> << [key |-> "k", value |-> "v"] >>],
      [id |-> "v2", status |-> "error",
       volume_metadata |-> << [key |-> "k", value |-> "v"],
                              [key |-> "j", value |-> "v"] >>],
      [id |-> "v3", status |-> "available",
       volume_metadata |-> << [key |-> "k", value |-> "w"] >>] }

SnapshotRows ==
    { [id |-> "s1", status |-> "available", volume_id |-> "v1"],
      [id |-> "s2", status |-> "error", volume_id |-> "v1"],
      [id |-> "s3", status |-> "available", volume_id |-> "v2"] }

RowInputs(rows) == UNION { [1..n -> rows] : n \in 0..MaxRows }

(* The filters (search options) a caller can supply: a dict. *)
FilterOption(key, values) == {NoDict} \cup { key :> v : v \in values }

VolumeFilterInputs ==
    { m @@ s @@ b @@ a :
          m \in FilterOption("metadata",
                  { {}, {<<"k", "v">>}, {<<"k", "v">>, <<"j", "v">>},
                    {<<"j", "v">>} }),
          s \in FilterOption("status", {"available", "error"}),
          b \in FilterOption("bogus", {"x"}),
          a \in FilterOption("all_tenants", {"1"}) }

SnapshotFilterInputs ==
    { s @@ v @@ b @@ a :
          s \in FilterOption("status", {"available", "error"}),
          v \in FilterOption("volume_id", {"v1"}),
          b \in FilterOption("bogus", {"x"}),
          a \in FilterOption("all_tenants", {"1"}) }

(* The limit argument: None, or what int(limit) makes of it (lines 365-373), *)
(* "x" standing for a limit that is not an integer.                          *)
LimitInputs == {NULL, "-1", "1", "x"}

LimitError(limit) ==
    IF limit = "x" THEN "InvalidInput"
    ELSE IF limit = "-1" THEN "InvalidInput"
    ELSE NULL

(* del filters['all_tenants'] for an admin context (lines 375-377, 436-438). *)
WithoutAllTenants(filters, is_admin) ==
    IF is_admin /\ "all_tenants" \in DOMAIN filters
    THEN [k \in DOMAIN filters \ {"all_tenants"} |-> filters[k]]
    ELSE filters

(* volume_metadata as the dict the loop of lines 390-392 builds. *)
RECURSIVE MetadataDict(_)
MetadataDict(items) ==
    IF items = <<>> THEN NoDict
    ELSE LET n == Len(items)
             prev == MetadataDict(SubSeq(items, 1, n - 1))
         IN  [k \in DOMAIN prev \cup {items[n].key} |->
                 IF k = items[n].key THEN items[n].value ELSE prev[k]]

(* _check_metadata_match (lines 389-398) *)
check_metadata_match(volume, searchdict) ==
    LET volume_metadata == MetadataDict(volume.volume_metadata)
    IN  ~ \E item \in searchdict :
              \/ item[1] \notin DOMAIN volume_metadata
              \/ volume_metadata[item[1]] # item[2]

filter_mapping == {"metadata"}

(* A comparison that lets a record through when it lacks the attribute. *)
filter_func_MissingMatches(mapping, opt, record, value) ==
    IF opt \in mapping THEN check_metadata_match(record, value)
    ELSE opt \notin DOMAIN record \/ record[opt] = value

(* filter_func for the option opt (lines 408-412; line 451 for snapshots,   *)
(* where the mapping is empty): record.get(opt, not_found) == value.        *)
filter_func(mapping, opt, record, value) ==
    IF opt \in mapping THEN check_metadata_match(record, value)
    ELSE opt \in DOMAIN record /\ record[opt] = value

(* The loops of lines 403-417 and 447-455: a record is appended unless a    *)
(* filter made the inner loop break.                                        *)
RECURSIVE FilterRecords(_, _, _)
FilterRecords(mapping, records, filters) ==
    IF records = <<>> THEN <<>>
    ELSE LET n == Len(records)
             result == FilterRecords(mapping, SubSeq(records, 1, n - 1), filters)
             broke == \E opt \in DOMAIN filters :
                          ~filter_func(mapping, opt, records[n], filters[opt])
         IN  IF broke THEN result ELSE Append(result, records[n])

(* get_all: the limit check, the candidates from the persistence layer,     *)
(* then the filters.                                                        *)
GetAll(p) ==
    /\ frame[p].pc = "idle"
    /\ \E limit \in LimitInputs, is_admin \in BOOLEAN,
          filters \in VolumeFilterInputs, volumes_ \in RowInputs(VolumeRows) :
          /\ limit = "1" => Len(volumes_) <= 1
          /\ LET f == [frame[p] EXCEPT !.op = "get_all", !.limit = limit,
                                       !.is_admin = is_admin, !.filters = filters]
                 effective == WithoutAllTenants(filters, is_admin)
             IN  frame' = [frame EXCEPT ![p] =
                     IF LimitError(limit) # NULL THEN Finish(f, LimitError(limit))
                     ELSE Finish([f EXCEPT
                                     !.candidates = volumes_,
                                     !.result =
                                         IF effective # NoDict
                                         THEN FilterRecords(filter_mapping, volumes_,
                                                            effective)
                                         ELSE volumes_],
                                 "returned")]
    /\ UNCHANGED <<volumes, snapshots, usages, reservations, casts, FLAGS, faults>>

(* get_all_snapshots *)
GetAllSnapshots(p) ==
    /\ frame[p].pc = "idle"
    /\ \E is_admin \in BOOLEAN, search_opts \in SnapshotFilterInputs,
          snapshots_ \in RowInputs(SnapshotRows) :
          LET effective == WithoutAllTenants(search_opts, is_admin)
          IN  frame' = [frame EXCEPT ![p] =
                  Finish([@ EXCEPT
                             !.op = "get_all_snapshots", !.is_admin = is_admin,
                             !.filters = search_opts, !.candidates = snapshots_,
                             !.result =
                                 IF effective # NoDict
                                 THEN FilterRecords({}, snapshots_, effective)
                                 ELSE snapshots_],
                         "returned")]
    /\ UNCHANGED <<volumes, snapshots, usages, reservations, casts, FLAGS, faults>>

(* The metadata maps given to _check_metadata_properties: None, or a dict   *)
(* of at most two items whose keys and values have the lengths at and       *)
(* around the limits.                                                       *)
DictInputs ==
    LET keys == { StrOfLen(n) : n \in {0, 1, MaxMetadataLen, MaxMetadataLen + 1} }
        values == { StrOfLen(n) : n \in {0, MaxMetadataLen, MaxMetadataLen + 1} }
    IN  { d \in SUBSET (keys \X values) :
              /\ Cardinality(d) <= 2
              /\ \A i, j \in d : i[1] = j[1] => i = j }

(* _check_metadata_properties(context, metadata): `not metadata` makes None *)
(* the empty dict; the first offending item met raises.                     *)
CheckMetadataProperties(p) ==
    /\ frame[p].pc = "idle"
    /\ \E is_none \in BOOLEAN, d \in DictInputs :
          /\ is_none => d = {}
          /\ LET metadata == IF is_none \/ d = {} THEN {} ELSE d
             IN  \E e \in check_metadata_properties(metadata) :
                     frame' = [frame EXCEPT ![p] =
                         Finish([@ EXCEPT !.op = "_check_metadata_properties",
                                          !.metadata = d,
                                          !.metadata_is_none = is_none],
                                IF e = NULL THEN "returned" ELSE e)]
    /\ UNCHANGED <<volumes, snapshots, usages, reservations, casts, FLAGS, faults>>

NextQuery ==
    \E p \in {1} :
        \/ ListAvailabilityZones(p)
        \/ GetAll(p)
        \/ GetAllSnapshots(p)
        \/ CheckMetadataProperties(p)

SpecQuery == InitQuery /\ [][NextQuery]_vars

(* A list_availability_zones that has returned, and the zone names and the  *)
(* services of a zone in what the persistence layer gave it.                *)
ListedZones(p) == frame[p].op = "list_availability_zones" /\ Returned(p)

ZoneNames(p) ==
    { frame[p].services[i].availability_zone : i \in DOMAIN frame[p].services }

ServicesOfZone(p, z) ==
    { i \in DOMAIN frame[p].services :
          frame[p].services[i].availability_zone = z }

OneEntryPerZone(p) ==
    /\ { e.name : e \in Range(frame[p].result) } = ZoneNames(p)
    /\ Len(frame[p].result) = Cardinality(ZoneNames(p))

(* C26 as stated: list_availability_zones reports exactly one entry per    *)
(* distinct zone name among the services, and a zone as available only if  *)
(* every service of that zone is not disabled.                             *)
C26_AvailableIfAllEnabled ==
    \A p \in Procs :
        ListedZones(p) =>
            /\ OneEntryPerZone(p)
            /\ \A e \in Range(frame[p].result) :
                   e.available =>
                       \A i \in ServicesOfZone(p, e.name) :
                           ~frame[p].services[i].disabled

(* C26 amended: list_availability_zones reports exactly one entry per      *)
(* distinct zone name among the services, and a zone as available iff at   *)
(* least one service of that zone is not disabled.                         *)
C26_AvailableIfAnyEnabled ==
    \A p \in Procs :
        ListedZones(p) =>
            /\ OneEntryPerZone(p)
            /\ \A e \in Range(frame[p].result) :
                   e.available <=>
                       \E i \in ServicesOfZone(p, e.name) :
                           ~frame[p].services[i].disabled

C26_Witness ==
    \E p \in Procs :
        /\ ListedZones(p)
        /\ frame[p].services =
               << [availability_zone |-> "zoneA", disabled |-> FALSE],
                  [availability_zone |-> "zoneA", disabled |-> TRUE],
                  [availability_zone |-> "zoneB", disabled |-> FALSE] >>
        /\ Range(frame[p].result) =
               { [name |-> "zoneA", available |-> TRUE],
                 [name |-> "zoneB", available |-> TRUE] }

(* A get_all or get_all_snapshots that has returned, and the filters it was *)
(* given less the all_tenants option an admin context consumes.             *)
Listed(p) == frame[p].op \in {"get_all", "get_all_snapshots"} /\ Returned(p)

SuppliedFilters(p) ==
    [k \in DOMAIN frame[p].filters \
           (IF frame[p].is_admin THEN {"all_tenants"} ELSE {}) |->
        frame[p].filters[k]]

(* What the filter of that key accepts, as C27 states it. *)
FilterAccepts(op, key, value, record) ==
    IF op = "get_all" /\ key = "metadata"
    THEN \A item \in value :
             \E i \in DOMAIN record.volume_metadata :
                 /\ record.volume_metadata[i].key = item[1]
                 /\ record.volume_metadata[i].value = item[2]
    ELSE key \in DOMAIN record /\ record[key] = value

(* C27: get_all and get_all_snapshots return exactly the candidate records *)
(* that every supplied filter accepts, in the candidates' order (the       *)
(* metadata filter of get_all accepts a volume iff every key and value of  *)
(* the search dict is in the volume's metadata, any other key accepts iff  *)
(* the record has an attribute of that name equal to the value), and with  *)
(* no filters they return all candidates.                                  *)
C27_FiltersSelectCandidates ==
    \A p \in Procs :
        Listed(p) =>
            LET filters == SuppliedFilters(p)
                Accepted(record) ==
                    \A key \in DOMAIN filters :
                        FilterAccepts(frame[p].op, key, filters[key], record)
            IN  /\ frame[p].result = SelectSeq(frame[p].candidates, Accepted)
                /\ DOMAIN filters = {} => frame[p].result = frame[p].candidates

C27_Witness ==
    \E p \in Procs :
        /\ Listed(p) /\ frame[p].op = "get_all"
        /\ DOMAIN frame[p].filters = {"metadata", "status"}
        /\ frame[p].filters["metadata"] = {<<"k", "v">>}
        /\ frame[p].filters["status"] = "available"
        /\ Len(frame[p].candidates) = MaxRows
        /\ frame[p].candidates[1].id = "v2" /\ frame[p].candidates[2].id = "v1"
        /\ Len(frame[p].result) = 1 /\ frame[p].result[1].id = "v1"

(* C28: _check_metadata_properties accepts an absent or empty metadata map *)
(* and any map whose keys have 1 to 255 characters and whose values have 0 *)
(* to 255; it rejects every map that has a key of no characters, a key of  *)
(* 256 or more, or a value of 256 or more.                                 *)
C28_MetadataValidation ==
    \A p \in Procs :
        frame[p].op = "_check_metadata_properties" /\ Done(p) =>
            /\ Returned(p) <=>
                   \A item \in frame[p].metadata :
                       /\ Len(item[1]) >= 1 /\ Len(item[1]) <= 255
                       /\ Len(item[2]) <= 255
            /\ ~Returned(p) =>
                   frame[p].raised \in
                       {"InvalidVolumeMetadata", "InvalidVolumeMetadataSize"}
            /\ frame[p].metadata_is_none \/ frame[p].metadata = {} => Returned(p)

C28_Witness ==
    \E p \in Procs :
        /\ frame[p].op = "_check_metadata_properties" /\ Returned(p)
        /\ \E item \in frame[p].metadata :
               Len(item[1]) = 255 /\ Len(item[2]) = 255
        /\ Cardinality(frame[p].metadata) = 2

(***************************************************************************)
(* The metadata operations on volume v1 and its snapshot s1:               *)
(* update_volume_metadata, delete_volume_metadata,                         *)
(* update_snapshot_metadata, delete_snapshot_metadata.  args.allow is what *)
(* the policy collaborator answers for the request's action; the frame     *)
(* keeps the arguments, orig_meta and the map returned.                    *)
(***************************************************************************)
SeedMetadata == { {<<"k", "v">>}, {<<"k", "v">>, <<"j", "v">>} }

MetadataUpdates == { {}, {<<"k", "w">>}, {<<"", "v">>}, {<<"k", LongStr>>} }

MetaFrame ==
    IdleFrame @@ [target |-> NULL, orig_meta |-> {}, delete |-> FALSE,
                  key |-> NULL, result |-> {}]

InitMetadata ==
    /\ \E m \in SeedMetadata :
           /\ volumes = ("v1" :> [SeedVolume EXCEPT !.metadata = m])
           /\ snapshots = ("s1" :> [SeedSnapshot EXCEPT !.metadata = m])
    /\ FLAGS \in [snapshot_same_host : {TRUE}, no_snapshot_gb_quota : {FALSE}]
    /\ usages = [r \in Resources |->
                    [in_use |-> CASE r = "volumes" -> 1
                                  [] r = "snapshots" -> 1
                                  [] r = "gigabytes" ->
                                        SeedVolume.size + SeedSnapshot.volume_size,
                     reserved |-> 0]]
    /\ reservations = [p \in Procs |-> NoReservation]
    /\ casts = {}
    /\ frame = [p \in Procs |-> MetaFrame]
    /\ faults = 0

(* A dict given as the set of its items, as the mapping from key to value. *)
AsDict(items) ==
    [k \in { i[1] : i \in items } |-> (CHOOSE i \in items : i[1] = k)[2]]

Items(d) == { <<k, d[k]>> : k \in DOMAIN d }

(* An update that merges whatever delete says. *)
ResultingMetadata_AlwaysMerges(orig_meta, metadata, delete) ==
    LET o == AsDict(orig_meta)
        m == AsDict(metadata)
    IN  Items([k \in DOMAIN o \cup DOMAIN m |->
                  IF k \in DOMAIN m THEN m[k] ELSE o[k]])

(* _metadata of lines 657-661 and 699-703: metadata itself, or a copy of    *)
(* orig_meta updated with it.                                               *)
ResultingMetadata(orig_meta, metadata, delete) ==
    IF delete THEN metadata
    ELSE LET o == AsDict(orig_meta)
             m == AsDict(metadata)
         IN  Items([k \in DOMAIN o \cup DOMAIN m |->
                       IF k \in DOMAIN m THEN m[k] ELSE o[k]])

(* The frame of a metadata update that has read orig_meta. *)
MetaEnter(f, op, id, orig_meta, metadata, delete, allow) ==
    [f EXCEPT !.op = op, !.target = id, !.orig_meta = orig_meta,
              !.locals.metadata = metadata, !.delete = delete,
              !.args = [NoArgs EXCEPT !.allow = allow], !.pc = "meta_write"]

(* update_volume_metadata begins: the policy check of wrap_check_policy,    *)
(* then get_volume_metadata with its own policy check and                   *)
(* db.volume_metadata_get.                                                  *)
UpdateVolumeMetadata(p) ==
    /\ frame[p].pc = "idle"
    /\ \E id \in DOMAIN volumes, metadata \in MetadataUpdates,
          delete \in BOOLEAN, allow \in BOOLEAN, allow_get \in BOOLEAN :
          LET f == MetaEnter(frame[p], "update_volume_metadata", id,
                             volumes[id].metadata, metadata, delete, allow)
          IN  frame' = [frame EXCEPT ![p] =
                  IF ~allow \/ ~allow_get
                  THEN Finish([f EXCEPT !.orig_meta = {}], "PolicyNotAuthorized")
                  ELSE f]
    /\ UNCHANGED <<volumes, snapshots, usages, reservations, casts, FLAGS, faults>>

(* update_snapshot_metadata begins: get_snapshot_metadata reads             *)
(* db.snapshot_metadata_get; the policy collaborator is not called.         *)
UpdateSnapshotMetadata(p) ==
    /\ frame[p].pc = "idle"
    /\ \E id \in DOMAIN snapshots, metadata \in MetadataUpdates,
          delete \in BOOLEAN, allow \in BOOLEAN :
          frame' = [frame EXCEPT ![p] =
              MetaEnter(@, "update_snapshot_metadata", id,
                        snapshots[id].metadata, metadata, delete, allow)]
    /\ UNCHANGED <<volumes, snapshots, usages, reservations, casts, FLAGS, faults>>

(* _check_metadata_properties(_metadata), then db.volume_metadata_update    *)
(* or db.snapshot_metadata_update(id, _metadata, True); _metadata returned. *)
MetadataWrite(p) ==
    /\ frame[p].pc = "meta_write"
    /\ LET f == frame[p]
           _metadata == ResultingMetadata(f.orig_meta, f.locals.metadata, f.delete)
       IN  \E e \in check_metadata_properties(_metadata) :
               IF e # NULL
               THEN /\ frame' = [frame EXCEPT ![p] = Finish(@, e)]
                    /\ UNCHANGED <<volumes, snapshots, faults>>
               ELSE \/ /\ IF f.op = "update_volume_metadata"
                          THEN /\ volumes' = [volumes EXCEPT
                                      ![f.target].metadata = _metadata]
                               /\ UNCHANGED snapshots
                          ELSE /\ snapshots' = [snapshots EXCEPT
                                      ![f.target].metadata = _metadata]
                               /\ UNCHANGED volumes
                       /\ frame' = [frame EXCEPT ![p] =
                              Finish([@ EXCEPT !.result = _metadata], "returned")]
                       /\ UNCHANGED faults
                    \/ /\ faults < MaxFaults
                       /\ faults' = faults + 1
                       /\ frame' = [frame EXCEPT ![p] =
                              Finish([@ EXCEPT !.failed_at = "metadata_update"],
                                     "Error:metadata_update")]
                       /\ UNCHANGED <<volumes, snapshots>>
    /\ UNCHANGED <<usages, reservations, casts, FLAGS>>

(* delete_volume_metadata: the policy check, then db.volume_metadata_delete. *)
DeleteVolumeMetadata(p) ==
    /\ frame[p].pc = "idle"
    /\ \E id \in DOMAIN volumes, key \in {"k"}, allow \in BOOLEAN :
          LET f == [frame[p] EXCEPT !.op = "delete_volume_metadata",
                                    !.target = id, !.key = key,
                                    !.args = [NoArgs EXCEPT !.allow = allow]]
          IN  IF ~allow
              THEN /\ frame' = [frame EXCEPT ![p] = Finish(f, "PolicyNotAuthorized")]
                   /\ UNCHANGED volumes
              ELSE /\ volumes' = [volumes EXCEPT ![id].metadata =
                          { i \in @ : i[1] # key }]
                   /\ frame' = [frame EXCEPT ![p] = Finish(f, "returned")]
    /\ UNCHANGED <<snapshots, usages, reservations, casts, FLAGS, faults>>

(* delete_snapshot_metadata: db.snapshot_metadata_delete; the policy        *)
(* collaborator is not called.                                              *)
DeleteSnapshotMetadata(p) ==
    /\ frame[p].pc = "idle"
    /\ \E id \in DOMAIN snapshots, key \in {"k"}, allow \in BOOLEAN :
          /\ snapshots' = [snapshots EXCEPT ![id].metadata =
                 { i \in @ : i[1] # key }]
          /\ frame' = [frame EXCEPT ![p] =
                 Finish([@ EXCEPT !.op = "delete_snapshot_metadata",
                                  !.target = id, !.key = key,
                                  !.args = [NoArgs EXCEPT !.allow = allow]],
                        "returned")]
    /\ UNCHANGED <<volumes, usages, reservations, casts, FLAGS, faults>>

NextMetadata ==
    \E p \in Procs :
        \/ UpdateVolumeMetadata(p)
        \/ UpdateSnapshotMetadata(p)
        \/ MetadataWrite(p)
        \/ DeleteVolumeMetadata(p)
        \/ DeleteSnapshotMetadata(p)

SpecMetadata == InitMetadata /\ [][NextMetadata]_vars

(* A metadata update that got past the policy, the metadata persisted for  *)
(* its target, and the map C29 says it results in.                         *)
UpdatingMetadata(p) ==
    /\ frame[p].op \in {"update_volume_metadata", "update_snapshot_metadata"}
    /\ frame[p].raised # "PolicyNotAuthorized"

PersistedMetadata(op, id) ==
    IF op = "update_volume_metadata" THEN volumes[id].metadata
    ELSE snapshots[id].metadata

Overridden(p) ==
    IF frame[p].delete THEN frame[p].locals.metadata
    ELSE { i \in frame[p].orig_meta :
               \A j \in frame[p].locals.metadata : j[1] # i[1] }
         \cup frame[p].locals.metadata

ValidMetadata(items) ==
    \A i \in items :
        Len(i[1]) >= 1 /\ Len(i[1]) <= MaxMetadataLen /\ Len(i[2]) <= MaxMetadataLen

(* C29: an update_volume_metadata or update_snapshot_metadata reads the    *)
(* existing metadata; the map it results in is the supplied map when       *)
(* delete is set and the existing metadata overridden by the supplied      *)
(* entries when it is not.  If that map is invalid the update raises and   *)
(* its step leaves the persisted metadata as it was; if it returns, the    *)
(* map is valid, it is the map returned, and the returning step has made   *)
(* it the persisted metadata.                                              *)
C29_MetadataUpdate ==
    /\ [](\A p \in Procs :
            UpdatingMetadata(p) =>
                /\ ~ValidMetadata(Overridden(p)) =>
                       frame[p].raised \in {NULL} \cup MetadataErrors
                /\ Done(p) /\ ~ValidMetadata(Overridden(p)) =>
                       frame[p].raised \in MetadataErrors
                /\ Returned(p) =>
                       /\ ValidMetadata(Overridden(p))
                       /\ frame[p].result = Overridden(p))
    /\ [][\A p \in Procs :
              /\ frame[p].pc = "idle" /\ frame'[p].pc = "meta_write" =>
                     frame'[p].orig_meta =
                         PersistedMetadata(frame'[p].op, frame'[p].target)
              /\ frame[p].pc = "meta_write" /\ frame'[p].pc = "done" =>
                     IF frame'[p].raised = "returned"
                     THEN PersistedMetadata(frame[p].op, frame[p].target)' =
                              frame'[p].result
                     ELSE UNCHANGED <<volumes, snapshots>>]_vars

C29_Witness ==
    \E p, q \in Procs :
        /\ frame[p].op = "update_volume_metadata" /\ Returned(p)
        /\ ~frame[p].delete
        /\ frame[p].orig_meta = {<<"k", "v">>, <<"j", "v">>}
        /\ frame[p].locals.metadata = {<<"k", "w">>}
        /\ volumes["v1"].metadata = {<<"k", "w">>, <<"j", "v">>}
        /\ frame[q].op = "update_snapshot_metadata"
        /\ frame[q].delete /\ frame[q].locals.metadata = {<<"k", LongStr>>}
        /\ frame[q].raised = "InvalidVolumeMetadataSize"
        /\ snapshots["s1"].metadata = frame[q].orig_meta

(* C30: a mutating operation called when the policy denies its action      *)
(* fails with PolicyNotAuthorized (Forbidden) at once, and no step of it   *)
(* changes a volume or snapshot record, their metadata, the quota usage or *)
(* the reservations, or issues an RPC.                                     *)
C30_PolicyBeforeChange ==
    /\ [](\A p \in Procs :
            frame[p].op # NULL /\ ~frame[p].args.allow =>
                Done(p) /\ frame[p].raised = "PolicyNotAuthorized")
    /\ [][\A p \in Procs :
              frame'[p] # frame[p] /\ ~frame'[p].args.allow =>
                  UNCHANGED <<volumes, snapshots, usages, reservations,
                              casts>>]_vars

(***************************************************************************)
(* The order of the steps of create.                                       *)
(***************************************************************************)
(* The parts of the order that concern reservation, persistence and cast:  *)
(* a row is persisted only under a reservation, and a create cast is       *)
(* issued only for a volume that was persisted.                            *)
CreateOrderUpToCast(p) ==
    /\ VolumeRowsOf(p) # {} => reservations[p].state # "none"
    /\ CreateCastsOf(p) # {} => frame[p].volume.id # NULL

(* C31: in create the steps occur in the order reservation, persistence of *)
(* the record, dispatch, commit: a record is persisted only under a        *)
(* reservation, a cast is issued only for a persisted record, and          *)
(* QUOTAS.commit is invoked only after the create cast has been issued.    *)
C31_CommitAfterCast ==
    \A p \in Procs :
        frame[p].op = "create"
        => /\ CreateOrderUpToCast(p)
           /\ reservations[p].commits > 0 => CreateCastsOf(p) # {}

(***************************************************************************)
(* The operations that leave an entity in a pending status: create, delete *)
(* (with a host), delete_snapshot and copy_volume_to_image.  The project   *)
(* is the one of InitDelete; one request is followed alone from its call   *)
(* to its end, so that the persisted status it leaves is its own.          *)
(***************************************************************************)
NextPending ==
    \E p \in {1} :
        \/ CreateCall(p)
        \/ CreateReserve(p)
        \/ CreateVolumeCreate(p)
        \/ CreateCommit(p)
        \/ CreateCleanup(p)
        \/ CastCreateVolumeStamp(p)
        \/ CastCreateVolumeDirect(p)
        \/ CastCreateVolumeScheduler(p)
        \/ DeleteCall(p)
        \/ DeleteReserve(p)
        \/ DeleteDestroy(p)
        \/ DeleteCommit(p)
        \/ DeleteCheckSnapshots(p)
        \/ DeleteUpdate(p)
        \/ DeleteCast(p)
        \/ GetSnapshot(p)
        \/ DeleteSnapshot(p)
        \/ DeleteSnapshotUpdate(p)
        \/ DeleteSnapshotVolumeGet(p)
        \/ DeleteSnapshotCast(p)
        \/ Get(p)
        \/ CopyVolumeToImage(p)
        \/ CopyImageCreate(p)
        \/ Update(p)
        \/ CopyCast(p)

SpecPending == InitDelete /\ [][NextPending]_vars

(* The status persisted for the entity a cast names, or NULL when the cast *)
(* is not one of the three or the record is gone.                          *)
StatusAtCast(c) ==
    IF c.method \in {"delete_volume", "copy_volume_to_image"}
    THEN IF c.volume_id \in DOMAIN volumes
         THEN volumes[c.volume_id].status ELSE NULL
    ELSE IF c.method = "delete_snapshot" /\ c.snapshot_id \in DOMAIN snapshots
    THEN snapshots[c.snapshot_id].status
    ELSE NULL

(* The pending status each of the three operations sets. *)
PendingStatus(method) ==
    CASE method = "delete_volume" -> "deleting"
      [] method = "delete_snapshot" -> "deleting"
      [] method = "copy_volume_to_image" -> "uploading"
      [] OTHER -> NULL

(* C32: once a request has issued the cast of delete (with host),          *)
(* delete_snapshot or copy_volume_to_image, the status persisted for the   *)
(* entity is the pending one (deleting, deleting, uploading): it was set   *)
(* before the cast; and the record create persists and returns has status  *)
(* creating and attach_status detached.                                    *)
C32_PendingBeforeCast ==
    \A p \in Procs :
        /\ \A c \in CastsOf(p) :
               c.rpc = "volume" /\ c.method # "create_volume"
               => StatusAtCast(c) = PendingStatus(c.method)
        /\ frame[p].op = "create"
               => /\ \A v \in VolumeRowsOf(p) :
                         v.status = "creating" /\ v.attach_status = "detached"
                  /\ Returned(p)
                         => /\ frame[p].volume.status = "creating"
                            /\ frame[p].volume.attach_status = "detached"
                            /\ VolumeRowsOf(p) # {}

C32_Witness ==
    \E p \in Procs :
        /\ frame[p].op = "copy_volume_to_image"
        /\ frame[p].args.status = "available"
        /\ Returned(p)
        /\ \E c \in CastsOf(p) : c.method = "copy_volume_to_image"
        /\ volumes["v1"].status = "uploading"

(***************************************************************************)
(* create: the requests rejected as InvalidInput.                          *)
(***************************************************************************)
(* The record of that id among the rows, or NoRecord for no id. *)
ArgRecord(table, id) == IF id = NULL THEN NoRecord ELSE table[id]

(* The create passes the policy check and the status checks of its snapshot *)
(* and source volume arguments (lines 98-113).                              *)
CreatePassesStateChecks(p) ==
    LET snapshot == ArgRecord(snapshots, frame[p].args.snapshot_id)
        source_volume == ArgRecord(volumes, frame[p].args.source_volid)
    IN  /\ frame[p].args.allow
        /\ snapshot.id # NULL => snapshot.status = "available"
        /\ source_volume.id # NULL => source_volume.status # "error"

(* C33: a create that names both a snapshot and a source volume, or that   *)
(* gets past the policy and status checks with a resolved size that is     *)
(* not a positive integer, fails with InvalidInput and has reserved,       *)
(* persisted and dispatched nothing; every volume create persists has an   *)
(* integer size greater than 0.                                            *)
C33_InvalidInputBeforeSideEffects ==
    \A p \in Procs :
        frame[p].op = "create"
        => LET a == frame[p].args
               both == a.snapshot_id # NULL /\ a.source_volid # NULL
               size == ResolvedSize(a.size, ArgRecord(snapshots, a.snapshot_id),
                                    ArgRecord(volumes, a.source_volid))
           IN  /\ both \/ (CreatePassesStateChecks(p) /\ size <= 0)
                      => /\ Done(p) /\ frame[p].raised = "InvalidInput"
                         /\ NoSideEffect(p)
               /\ \A v \in VolumeRowsOf(p) : v.size \in Nat /\ v.size > 0

C33_Witness ==
    \E p \in Procs :
        /\ frame[p].op = "create"
        /\ frame[p].args.snapshot_id = NULL /\ frame[p].args.source_volid = NULL
        /\ frame[p].args.allow
        /\ frame[p].args.size = StrSize(-1)
        /\ Done(p) /\ frame[p].raised = "InvalidInput"
        /\ NoSideEffect(p)

(* C34: create is failure-atomic: when it has raised an error to its       *)
(* caller, no volume record it created is persisted and it has committed   *)
(* nothing to the project's quota usage.                                   *)
C34_CreateFailureAtomic ==
    \A p \in Procs :
        frame[p].op = "create" /\ Raised(p)
        => /\ VolumeRowsOf(p) = {}
           /\ reservations[p].state # "committed"

(* C35: every direct create cast (snapshot or clone origin) is addressed   *)
(* to a host: the host the router stamped on the new volume is set.        *)
C35_DirectCastHasHost ==
    \A c \in casts :
        c.rpc = "volume" /\ c.method = "create_volume" => c.dest # NULL

(* C36: a volume created from a snapshot is at least as large as the       *)
(* snapshot's recorded volume_size, whatever size was requested.           *)
C36_SnapshotVolumeNotSmaller ==
    \A p \in Procs :
        frame[p].op = "create" /\ frame[p].args.snapshot_id # NULL
        => \A v \in VolumeRowsOf(p) :
               v.size >= snapshots[frame[p].args.snapshot_id].volume_size

(* C37: when QUOTAS.commit failed in create_snapshot after the snapshot    *)
(* record was persisted, the cleanup has removed that record by the time   *)
(* the error reaches the caller: no snapshot record of the request exists  *)
(* without committed quota.                                                *)
C37_SnapshotCleanupRemovesRecord ==
    \A p \in Procs :
        /\ frame[p].op = "create_snapshot"
        /\ Raised(p)
        /\ frame[p].failed_at = "commit"
        => SnapshotRowsOf(p) = {}

(* The create of request p has persisted its volume and has its dispatch   *)
(* still to issue.                                                         *)
DispatchPending(p) ==
    /\ frame[p].op = "create"
    /\ frame[p].volume.id # NULL
    /\ frame[p].pc \in {"create_commit", "cast", "cast_direct"}

(* C38: under any interleaving of create with a delete of the same, still  *)
(* host-less volume, the quota charged for the volume is not released      *)
(* while the create's dispatch is still to be issued, and no create_volume *)
(* cast is issued for a volume whose record has been destroyed.            *)
C38_NoDispatchForDestroyedVolume ==
    /\ [](\A p \in Procs, q \in Procs :
              /\ DispatchPending(p)
              /\ frame[q].op = "delete"
              /\ frame[q].volume.id = frame[p].volume.id
              => reservations[q].state # "committed")
    /\ [][\A c \in casts' \ casts :
              c.method = "create_volume" => c.volume_id \in DOMAIN volumes]_vars

(* Request p is an authorized delete of a volume that has no host. *)
HostlessDelete(p) == Deleting(p) /\ frame[p].volume.host = NULL

(* C39: on the host-less path of delete usage and records stay            *)
(* consistent: once the deletes are over, the project's usage has been     *)
(* decremented by (volumes 1, gigabytes size) if and only if the volume    *)
(* record is destroyed, also when the reserve or volume_destroy failed.    *)
C39_HostlessDeleteConsistent ==
    /\ \E p \in Procs : HostlessDelete(p)
    /\ \A p \in Procs : frame[p].op = "delete" => Done(p)
    => /\ usages["volumes"].in_use = IF "v1" \in DOMAIN volumes THEN 1 ELSE 0
       /\ \A p \in Procs :
              HostlessDelete(p) /\ reservations[p].state = "committed"
              => reservations[p].deltas
                     = [volumes |-> -1, gigabytes |-> -frame[p].volume.size]

(***************************************************************************)
(* The blocking calls to the worker.                                       *)
(***************************************************************************)
CallOps == {"attach", "detach", "initialize_connection", "terminate_connection"}

(* The calls request p made to the worker. *)
CallsOf(p) == { c \in CastsOf(p) : "reply" \in DOMAIN c }

(* Request p is an authorized terminate_connection called with a record in *)
(* status attaching, and has made its call to the worker.                  *)
TerminatedAttaching(p) ==
    /\ frame[p].op = "terminate_connection"
    /\ frame[p].args.allow
    /\ frame[p].args.status = "attaching"
    /\ CallsOf(p) # {}

=============================================================================
